---- MODULE Spec2Model ----
(***************************************************************************)
(* A model of the account pool (AccountManager, TwitterAccount), the       *)
(* session cache (TwitterService.getScraper / loginWithAccount) and the    *)
(* failover loop (TwitterService.executeOperation) of the twitter-api      *)
(* service.                                                                *)
(*                                                                         *)
(* The service runs on one JavaScript event loop: code between two awaits  *)
(* runs to completion.  An action of this model is therefore one such      *)
(* run: it starts when an awaited external call (login, liveness probe,    *)
(* the caller's operation) settles and ends at the next await or at the    *)
(* end of the call.  The result of every external call is an input of the  *)
(* action, and so is the success or failure of every write to the          *)
(* database (dbService.updateAccountState throws when the statement        *)
(* fails or the database is not connected).                                *)
(***************************************************************************)
EXTENDS Integers, Sequences, FiniteSets, TLC

\* ------------------------------------------------------------------ bounds
\* The account objects the pool can hold, in the row order of the database.
Objs == <<"o1", "o2", "o3">>
\* Concurrent executeOperation calls.
Calls == {"c1", "c2"}
\* Disturbances over one behaviour: writes to the database that fail,
\* requests to the enable / disable endpoints, seconds the clock advances.
MaxEvents == 1
\* Outcomes recorded on the account of the health specification.
MaxOutcomes == 9

\* ------------------------------------------------------- program constants
\* updateAccountStatus: "failureCount > 5".
FailureLimit == 5
\* updateAccountStatus: "getSuccessRate() < 0.2", 0.2 being 1 / RateDivisor.
RateDivisor == 5

Null == "null"
ObjSet == {Objs[i] : i \in 1..Len(Objs)}

\* ---------------------------------------------------------------- state
VARIABLES
    accounts,   \* AccountManager.accounts: the pool, a sequence of objects
    acct,       \* the TwitterAccount objects: object -> fields
    db,         \* the accounts table: username -> stored state
    scrapers,   \* TwitterService.scrapers: usernames that have a handle
    calls,      \* the executeOperation calls: call -> frame
    now,        \* Math.floor(Date.now() / 1000)
    faults,     \* database writes that have failed so far
    toggles,    \* enable / disable requests served so far
    pending,    \* executeOperation calls the callers have yet to make
    h,          \* health specification: the account under test
    hlog,       \* health specification: the outcomes recorded on it
    run,        \* one _executeConcurrentTasks call: queue, results, workers
    merge,      \* one _fetchAndMergeThreads call
    thread,     \* one getThread operation
    proc,       \* one _processTweets task
    batch,      \* one _postProcessAndFetchThreads call
    rateLimits, \* TwitterAccount.rateLimits: object -> endpoint -> entry
    session,    \* one TwitterService.login() call and the logout() calls
    timeline,   \* one getTweets call: the generator and the collected tweets
    history,    \* addAccount / removeAccount: the accounts in insertion order
    admin,      \* the requests to the enable / disable endpoints
    jobs        \* jobService: the store of the tweet jobs

vars == <<accounts, acct, db, scrapers, calls, now, faults, toggles, pending, h, hlog, run, merge, thread, proc, batch, rateLimits, session, timeline, history, admin, jobs>>

\* ------------------------------------------------------------ TwitterAccount
NoLimit == [has |-> FALSE, remaining |-> 0, reset |-> 0]

\* new TwitterAccount(config): isLoggedIn and inUse start false, the health
\* counters at zero and the rate-limit map empty.
TwitterAccount(u, p, d) ==
    [username |-> u, priority |-> p, disabled |-> d, isLoggedIn |-> FALSE,
     inUse |-> FALSE, successCount |-> 0, failureCount |-> 0,
     rateLimit |-> NoLimit]

\* canUse(endpoint), for the endpoint category of the calls.
canUse(a, t) ==
    IF a.disabled THEN FALSE
    ELSE IF a.rateLimit.has /\ t < a.rateLimit.reset /\ a.rateLimit.remaining <= 0
         THEN FALSE
         ELSE TRUE

\* getSuccessRate(): the quotient successCount / total as <<numerator,
\* denominator>>, and 1 when nothing has been recorded.
getSuccessRate(a) ==
    LET total == a.successCount + a.failureCount
    IN IF total = 0 THEN <<1, 1>> ELSE <<a.successCount, total>>

\* r1 < r2 on quotients with positive denominators.
RateLess(r1, r2) == r1[1] * r2[2] < r2[1] * r1[2]

\* A faulty variant of recordSuccess: a success brings the account back.
SuccessEnables(a) == [a EXCEPT !.successCount = @ + 1, !.disabled = FALSE]

recordSuccess(a) == [a EXCEPT !.successCount = @ + 1]
recordFailure(a) == [a EXCEPT !.failureCount = @ + 1]
\* A faulty variant of enable: the flag is flipped.
FlipsDisabled(a) == [a EXCEPT !.disabled = ~@]

enable(a) == [a EXCEPT !.disabled = FALSE]
disable(a) == [a EXCEPT !.disabled = TRUE]

\* --------------------------------------------------------- AccountManager
\* A faulty variant: the account is disabled at the 5th failure already.
DisableAtLimit(a, success) ==
    IF success THEN recordSuccess(a)
    ELSE LET b == recordFailure(a)
         IN IF b.failureCount >= FailureLimit
               /\ RateLess(getSuccessRate(b), <<1, RateDivisor>>)
            THEN disable(b) ELSE b

\* updateAccountStatus(account, success, ...) up to the write to the
\* database: the callers of this service never pass a rateLimit argument.
applyOutcome(a, success) ==
    IF success THEN recordSuccess(a)
    ELSE LET b == recordFailure(a)
         IN IF b.failureCount > FailureLimit
               /\ RateLess(getSuccessRate(b), <<1, RateDivisor>>)
            THEN disable(b) ELSE b

\* What dbService.updateAccountState writes for an account.
Row(a) ==
    [disabled |-> a.disabled, isLoggedIn |-> a.isLoggedIn,
     successCount |-> a.successCount, failureCount |-> a.failureCount,
     rateLimit |-> a.rateLimit]

\* Faulty variants of the filter: one lets disabled accounts through, the
\* other reserved ones.
IgnoresDisabled(a, t) == canUse(enable(a), t) /\ ~a.inUse

IgnoresInUse(a, t) == ~a.disabled /\ canUse(a, t)

\* The filter of getBestAvailableAccount.
IsAvailable(a, t) == ~a.disabled /\ canUse(a, t) /\ ~a.inUse

\* availableAccounts.sort((a, b) => b.getSuccessRate() - a.getSuccessRate()):
\* Array.prototype.sort is stable, so an element goes behind the elements
\* before it whose rate is not lower.
RECURSIVE InsertByRate(_, _, _)
InsertByRate(A, x, s) ==
    IF s = <<>> THEN <<x>>
    ELSE IF RateLess(getSuccessRate(A[s[Len(s)]]), getSuccessRate(A[x]))
         THEN Append(InsertByRate(A, x, SubSeq(s, 1, Len(s) - 1)), s[Len(s)])
         ELSE Append(s, x)

RECURSIVE SortByRate(_, _)
SortByRate(A, s) ==
    IF s = <<>> THEN <<>>
    ELSE InsertByRate(A, s[Len(s)], SortByRate(A, SubSeq(s, 1, Len(s) - 1)))

RECURSIVE Filter(_, _, _)
Filter(A, s, t) ==
    IF s = <<>> THEN <<>>
    ELSE LET rest == Filter(A, SubSeq(s, 1, Len(s) - 1), t)
         IN IF IsAvailable(A[s[Len(s)]], t) THEN Append(rest, s[Len(s)]) ELSE rest

\* A faulty variant: the comparator is reversed, the lowest rate comes first.
WorstAvailableAccount(pool, A, t) ==
    IF Len(pool) = 0 THEN Null
    ELSE LET availableAccounts == Filter(A, pool, t)
         IN IF Len(availableAccounts) = 0 THEN Null
            ELSE LET sorted == SortByRate(A, availableAccounts)
                 IN sorted[Len(sorted)]

\* getBestAvailableAccount(endpoint) on the pool with objects A at time t.
getBestAvailableAccount(pool, A, t) ==
    IF Len(pool) = 0 THEN Null
    ELSE LET availableAccounts == Filter(A, pool, t)
         IN IF Len(availableAccounts) = 0 THEN Null
            ELSE SortByRate(A, availableAccounts)[1]

\* updateAccountStatus(account, success, ...) on the memory m (the objects,
\* the table and the handles): the outcome is recorded on the object, then
\* dbService.updateAccountState writes the row, which throws when fault.
updateAccountStatus(m, o, success, fault) ==
    LET a == applyOutcome(m.acct[o], success)
    IN [m EXCEPT !.acct[o] = a,
                 !.db = IF fault THEN @ ELSE [@ EXCEPT ![a.username] = Row(a)]]

\* ---------------------------------------------------------- executeOperation
NoError == [kind |-> "none", by |-> "none"]
OpError(u) == [kind |-> "operation", by |-> u]
AuthError(u) == [kind |-> "login", by |-> u]
DbError(u) == [kind |-> "database", by |-> u]

\* What a call hands to its caller: the operation's result on an account,
\* the error "Operation failed for all accounts. Last error: ..." or an
\* error that left the loop as it was thrown.
NoOutcome == [kind |-> "none", by |-> "none", last |-> NoError]
Result(u) == [kind |-> "result", by |-> u, last |-> NoError]
AllFailed(e) == [kind |-> "allFailed", by |-> "none", last |-> e]
Thrown(e) == [kind |-> "thrown", by |-> "none", last |-> e]

InFlight == {"probe", "login", "verify", "op"}
Ended == {"returned", "threw"}

\* The frame of a call: pc, attemptedAccounts, account (of the current
\* iteration, or of the last one once the call has ended), lastError of the
\* code; fresh says that getScraper is in its "create a new scraper" block.
\* The rest records what happened: tries counts the loop iterations that
\* reserved an account, won / wonBy the attempt whose operation returned,
\* opFailed the accounts whose operation threw, authFailed those whose login
\* threw or left the handle logged out, grew
\* by how much the steps of the call raised successCount and failureCount of
\* each account, clean whether the call began with every account
\* selectable and no other call in flight, and probed what the liveness
\* probe of the cached handle said in the current attempt.
IdleFrame ==
    [pc |-> "idle", attempted |-> {}, account |-> Null, fresh |-> FALSE,
     lastError |-> NoError, outcome |-> NoOutcome, tries |-> 0,
     won |-> FALSE, wonBy |-> "none", opFailed |-> {}, authFailed |-> {},
     grew |-> [o \in ObjSet |-> <<0, 0>>], clean |-> FALSE, probed |-> "none"]

\* A faulty variant of the loop head: the selected account is not looked up
\* in attemptedAccounts.
RetriesAttempted(m, cr) ==
    LET account == getBestAvailableAccount(accounts, m.acct, now)
    IN IF ~(Cardinality(cr.attempted) < Len(accounts)) \/ account = Null
       THEN [mem |-> m,
             call |-> [cr EXCEPT !.pc = "threw", !.probed = "none",
                                 !.outcome = AllFailed(cr.lastError)]]
       ELSE LET u == m.acct[account].username
                cached == u \in m.scrapers
            IN [mem |-> [m EXCEPT !.acct[account].inUse = TRUE,
                                  !.scrapers = @ \cup {u}],
                call |-> [cr EXCEPT !.attempted = @ \cup {u},
                                    !.account = account,
                                    !.tries = @ + 1,
                                    !.fresh = ~cached,
                                    !.probed = "none",
                                    !.pc = IF cached THEN "probe" ELSE "login"]]

\* A faulty variant of the loop head: the loop runs over every account
\* object the service knows, in the pool or not.
IgnoresPool(m, cr) ==
    LET account == getBestAvailableAccount(Objs, m.acct, now)
    IN IF ~(Cardinality(cr.attempted) < Len(Objs))
          \/ account = Null
          \/ m.acct[account].username \in cr.attempted
       THEN [mem |-> m,
             call |-> [cr EXCEPT !.pc = "threw", !.probed = "none",
                                 !.outcome = AllFailed(cr.lastError)]]
       ELSE LET u == m.acct[account].username
                cached == u \in m.scrapers
            IN [mem |-> [m EXCEPT !.acct[account].inUse = TRUE,
                                  !.scrapers = @ \cup {u}],
                call |-> [cr EXCEPT !.attempted = @ \cup {u},
                                    !.account = account,
                                    !.tries = @ + 1,
                                    !.fresh = ~cached,
                                    !.probed = "none",
                                    !.pc = IF cached THEN "probe" ELSE "login"]]

\* A faulty variant of the loop head: a cached handle whose account is
\* flagged isLoggedIn is used without the liveness probe.
TrustsFlag(m, cr) ==
    LET account == getBestAvailableAccount(accounts, m.acct, now)
    IN IF ~(Cardinality(cr.attempted) < Len(accounts))
          \/ account = Null
          \/ m.acct[account].username \in cr.attempted
       THEN [mem |-> m,
             call |-> [cr EXCEPT !.pc = "threw", !.probed = "none",
                                 !.outcome = AllFailed(cr.lastError)]]
       ELSE LET u == m.acct[account].username
                cached == u \in m.scrapers
            IN [mem |-> [m EXCEPT !.acct[account].inUse = TRUE,
                                  !.scrapers = @ \cup {u}],
                call |-> [cr EXCEPT !.attempted = @ \cup {u},
                                    !.account = account,
                                    !.tries = @ + 1,
                                    !.fresh = ~cached,
                                    !.probed = "none",
                                    !.pc = IF cached
                                           THEN IF m.acct[account].isLoggedIn
                                                THEN "op" ELSE "probe"
                                           ELSE "login"]]

\* One pass from the head of the while loop to the first await of getScraper
\* (the liveness probe of a cached handle, or the login of a new one), or
\* out of the loop to the final throw.
LoopHead(m, cr) ==
    LET account == getBestAvailableAccount(accounts, m.acct, now)
    IN IF ~(Cardinality(cr.attempted) < Len(accounts))
          \/ account = Null
          \/ m.acct[account].username \in cr.attempted
       THEN [mem |-> m,
             call |-> [cr EXCEPT !.pc = "threw", !.probed = "none",
                                 !.outcome = AllFailed(cr.lastError)]]
       ELSE LET u == m.acct[account].username
                cached == u \in m.scrapers
            IN [mem |-> [m EXCEPT !.acct[account].inUse = TRUE,
                                  !.scrapers = @ \cup {u}],
                call |-> [cr EXCEPT !.attempted = @ \cup {u},
                                    !.account = account,
                                    !.tries = @ + 1,
                                    !.fresh = ~cached,
                                    !.probed = "none",
                                    !.pc = IF cached THEN "probe" ELSE "login"]]

\* A faulty variant of the catch block: the loop goes on with the account
\* still reserved.
KeepsReserved(m, cr, o, e, fault) ==
    LET m1 == updateAccountStatus(m, o, FALSE, fault)
        cr1 == [cr EXCEPT !.lastError = e]
    IN IF fault
       THEN [mem |-> m1,
             call |-> [cr1 EXCEPT !.pc = "threw", !.probed = "none",
                                  !.outcome = Thrown(DbError(m.acct[o].username))]]
       ELSE LoopHead(m1, cr1)

\* The catch block of executeOperation and what follows it: the error
\* becomes lastError, the failure is recorded, inUse is cleared and the loop
\* goes on.  When the write of updateAccountStatus throws, that error leaves
\* executeOperation at once.
Catch(m, cr, o, e, fault) ==
    LET m1 == updateAccountStatus(m, o, FALSE, fault)
        cr1 == [cr EXCEPT !.lastError = e]
    IN IF fault
       THEN [mem |-> m1,
             call |-> [cr1 EXCEPT !.pc = "threw", !.probed = "none",
                                  !.outcome = Thrown(DbError(m.acct[o].username))]]
       ELSE LoopHead([m1 EXCEPT !.acct[o].inUse = FALSE], cr1)

Events == faults + toggles + now

Mem == [acct |-> acct, db |-> db, scrapers |-> scrapers]

\* The writes of one step that fail: only writes the step makes, and no more
\* than the behaviour has left.
FaultChoice(fs, asked) ==
    /\ \A i \in DOMAIN fs : fs[i] => i \in asked
    /\ Events + Cardinality({i \in DOMAIN fs : fs[i]}) <= MaxEvents

\* ------------------------------------------------------------- jobService
\* A job of the store: result and error are optional, trace lists the
\* statuses the job was given, call is the executeOperation call its
\* getTweets makes.
NoResult == [present |-> FALSE, value |-> 0]
NoMessage == [present |-> FALSE, value |-> ""]
ResultOf(n) == [present |-> TRUE, value |-> n]
Message(text) == [present |-> TRUE, value |-> text]

\* createJob(payload): the new job, pending.
createJob(id, c) ==
    [id |-> id, status |-> "pending", result |-> NoResult, error |-> NoMessage,
     trace |-> <<"pending">>, call |-> c]

\* A faulty variant of updateJobStatus: a missing result is stored as an
\* empty list.
StoresEmptyResult(job, status, result, error) ==
    [job EXCEPT !.status = status,
                !.result = IF result.present THEN result ELSE ResultOf(0),
                !.error = IF error.present /\ error.value # "" THEN error ELSE @,
                !.trace = Append(@, status)]

\* updateJobStatus(id, status, result, error) on the job of that id:
\* "if (result)" holds for every array, "if (error)" for every string but
\* the empty one.
updateJobStatus(job, status, result, error) ==
    [job EXCEPT !.status = status,
                !.result = IF result.present THEN result ELSE @,
                !.error = IF error.present /\ error.value # "" THEN error ELSE @,
                !.trace = Append(@, status)]

\* "error.message || 'An unknown error occurred'"
MessageOr(text) == IF text = "" THEN "An unknown error occurred" ELSE text

\* The message of the error a call throws.
ErrorMessage(outcome) ==
    IF outcome.kind = "allFailed" THEN "Operation failed for all accounts"
    ELSE "Database error"

\* processTweetJob, catch block: the error getTweets rejects with when the
\* executeOperation call c has thrown fails the job of that call.
JobsAfter(store, c, cr) ==
    [j \in DOMAIN store |->
        IF store[j].call = c /\ store[j].status = "processing" /\ cr.pc = "threw"
        THEN updateJobStatus(store[j], "failed", NoResult,
                             Message(MessageOr(ErrorMessage(cr.outcome))))
        ELSE store[j]]

EffectOn(c, r, fs, store) ==
    /\ acct' = r.mem.acct
    /\ db' = r.mem.db
    /\ scrapers' = r.mem.scrapers
    /\ calls' = [calls EXCEPT ![c] =
                    [r.call EXCEPT !.grew = [o \in ObjSet |->
                        <<@[o][1] + r.mem.acct[o].successCount - acct[o].successCount,
                          @[o][2] + r.mem.acct[o].failureCount - acct[o].failureCount>>]]]
    /\ faults' = faults + Cardinality({i \in DOMAIN fs : fs[i]})
    /\ jobs' = [jobs EXCEPT !.store = JobsAfter(store, c, r.call)]
    /\ UNCHANGED <<accounts, now, toggles, h, hlog, run, merge, thread, proc, batch, rateLimits, session, timeline, history, admin>>

\* What a step of the call c leaves: the memory, the frame of the call with
\* the growth of the counters added up, the failed writes counted.
Effect(c, r, fs) == EffectOn(c, r, fs, jobs.store)

Commit(c, r, fs) == Effect(c, r, fs) /\ UNCHANGED pending

NoFaults == [i \in 1..4 |-> FALSE]

PoolObjs == {accounts[i] : i \in 1..Len(accounts)}
Others(c) == Calls \ {c}

\* executeOperation(operation, endpointCategory) is called.
Begin(c) ==
    /\ calls[c].pc = "idle"
    /\ pending > 0
    /\ pending' = pending - 1
    /\ LET cr == [IdleFrame EXCEPT
                    !.clean = /\ \A o \in PoolObjs :
                                    /\ ~acct[o].disabled
                                    /\ canUse(acct[o], now)
                                    /\ ~acct[o].inUse
                              /\ \A d \in Others(c) : calls[d].pc \notin InFlight]
       IN Effect(c, LoopHead(Mem, cr), NoFaults)

\* What "await scraper.isLoggedIn()" can do: resolve to true or false, or
\* reject.
ProbeResults == {"alive", "dead", "throws"}

\* getScraper, cached handle: "await scraper.isLoggedIn()" settles.  A
\* rejection is not caught before the catch block of executeOperation.
Probe(c) ==
    /\ calls[c].pc = "probe"
    /\ LET cr == calls[c]
           o == cr.account
           u == acct[o].username
       IN \E probe \in ProbeResults, fs \in [1..4 -> BOOLEAN] :
            IF probe = "throws"
            THEN /\ FaultChoice(fs, {1})
                 /\ Commit(c, Catch(Mem, [cr EXCEPT !.authFailed = @ \cup {u}],
                                    o, AuthError(u), fs[1]), fs)
            ELSE /\ fs = NoFaults
                 /\ Commit(c, [mem |-> Mem,
                               call |-> [cr EXCEPT !.probed = probe,
                                                   !.pc = IF probe = "alive"
                                                          THEN "op" ELSE "login"]],
                           fs)

\* loginWithAccount after "await scraper.login(...)" or the probe behind it
\* has rejected: its catch block, the catch block of getScraper when the
\* handle is new, then the catch block of executeOperation.
LoginThrew(c, fs) ==
    LET cr == calls[c]
        o == cr.account
        u == acct[o].username
        m0 == [Mem EXCEPT !.acct[o].isLoggedIn = FALSE]
        m1 == updateAccountStatus(m0, o, FALSE, fs[1])
        e1 == IF fs[1] THEN DbError(u) ELSE AuthError(u)
        m2 == IF cr.fresh THEN updateAccountStatus(m1, o, FALSE, fs[2]) ELSE m1
        e2 == IF cr.fresh /\ fs[2] THEN DbError(u) ELSE e1
        cr1 == [cr EXCEPT !.authFailed = @ \cup {u}]
    IN /\ FaultChoice(fs, IF cr.fresh THEN {1, 2, 3} ELSE {1, 3})
       /\ Commit(c, Catch(m2, cr1, o, e2, fs[3]), fs)

\* loginWithAccount: "await scraper.login(...)" settles.
Login(c) ==
    /\ calls[c].pc = "login"
    /\ LET cr == calls[c]
           o == cr.account
           u == acct[o].username
       IN \E ok \in BOOLEAN, fs \in [1..4 -> BOOLEAN] :
            IF ok
            THEN /\ fs = NoFaults
                 /\ Commit(c, [mem |-> Mem, call |-> [cr EXCEPT !.pc = "verify"]], fs)
            ELSE LoginThrew(c, fs)

\* loginWithAccount: "await scraper.isLoggedIn()" after the login settles.
Verify(c) ==
    /\ calls[c].pc = "verify"
    /\ LET cr == calls[c]
           o == cr.account
           u == acct[o].username
       IN \E probe \in ProbeResults, fs \in [1..4 -> BOOLEAN] :
            LET alive == probe = "alive"
                m0 == [Mem EXCEPT !.acct[o].isLoggedIn = alive]
                m1 == updateAccountStatus(m0, o, alive, fs[1])
                m2 == updateAccountStatus([m1 EXCEPT !.acct[o].isLoggedIn = FALSE],
                                          o, FALSE, fs[2])
                m3 == IF cr.fresh
                      THEN updateAccountStatus(m2, o, FALSE, fs[3]) ELSE m2
                cr1 == [cr EXCEPT !.authFailed = IF alive THEN @ ELSE @ \cup {u}]
            IN IF probe = "throws"
               THEN LoginThrew(c, fs)
               ELSE IF ~fs[1]
               THEN /\ FaultChoice(fs, {1})
                    /\ Commit(c, [mem |-> m1, call |-> [cr1 EXCEPT !.pc = "op"]], fs)
               ELSE /\ FaultChoice(fs, IF cr.fresh THEN {1, 2, 3, 4} ELSE {1, 2, 4})
                    /\ Commit(c, Catch(m3, cr1, o, DbError(u), fs[4]), fs)

\* "await operation({ scraper, account })" settles.
Operation(c) ==
    /\ calls[c].pc = "op"
    /\ LET cr == calls[c]
           o == cr.account
           u == acct[o].username
       IN \E ok \in BOOLEAN, fs \in [1..4 -> BOOLEAN] :
            IF ok
            THEN LET m1 == updateAccountStatus(Mem, o, TRUE, fs[1])
                     cr1 == [cr EXCEPT !.won = TRUE, !.wonBy = u]
                 IN IF ~fs[1]
                    THEN /\ FaultChoice(fs, {1})
                         /\ Commit(c, [mem |-> [m1 EXCEPT !.acct[o].inUse = FALSE],
                                       call |-> [cr1 EXCEPT !.pc = "returned",
                                                            !.probed = "none",
                                                            !.outcome = Result(u)]],
                                   fs)
                    ELSE /\ FaultChoice(fs, {1, 2})
                         /\ Commit(c, Catch(m1, cr1, o, DbError(u), fs[2]), fs)
            ELSE /\ FaultChoice(fs, {1})
                 /\ Commit(c, Catch(Mem, [cr EXCEPT !.opFailed = @ \cup {u}],
                                    o, OpError(u), fs[1]), fs)

\* ------------------------------------------------- the rest of the service
\* A second of wall-clock time passes.
Tick ==
    /\ Events < MaxEvents
    /\ now' = now + 1
    /\ UNCHANGED <<accounts, acct, db, scrapers, calls, faults, toggles, pending, h, hlog, run, merge, thread, proc, batch, rateLimits, session, timeline, history, admin, jobs>>

\* enableAccount / disableAccount of the accounts controller: the object is
\* changed, nothing is written to the database.
EnableAccount(o) ==
    /\ Events < MaxEvents
    /\ o \in PoolObjs
    /\ acct' = [acct EXCEPT ![o] = enable(@)]
    /\ toggles' = toggles + 1
    /\ UNCHANGED <<accounts, db, scrapers, calls, now, faults, pending, h, hlog, run, merge, thread, proc, batch, rateLimits, session, timeline, history, admin, jobs>>

DisableAccount(o) ==
    /\ Events < MaxEvents
    /\ o \in PoolObjs
    /\ acct' = [acct EXCEPT ![o] = disable(@)]
    /\ toggles' = toggles + 1
    /\ UNCHANGED <<accounts, db, scrapers, calls, now, faults, pending, h, hlog, run, merge, thread, proc, batch, rateLimits, session, timeline, history, admin, jobs>>

\* ------------------------------------------------------------------- Init
\* The accounts AccountManager.init can load from the table: untried, with a
\* good record, with a bad record one failure short of being disabled,
\* disabled, and out of requests for the endpoint until the clock reaches 1.
Loaded(s, f, d, rl) ==
    [s |-> s, f |-> f, d |-> d, rl |-> rl]

Profiles ==
    { Loaded(0, 0, FALSE, NoLimit),
      Loaded(3, 0, FALSE, NoLimit),
      Loaded(0, 5, FALSE, NoLimit),
      Loaded(0, 0, TRUE, NoLimit),
      Loaded(0, 0, FALSE, [has |-> TRUE, remaining |-> 0, reset |-> 1]) }

UsernameOf(o) ==
    CASE o = "o1" -> "a1" [] o = "o2" -> "a2" [] o = "o3" -> "a3"

FromRow(o, p) ==
    [TwitterAccount(UsernameOf(o), 1, p.d) EXCEPT
        !.successCount = p.s, !.failureCount = p.f, !.rateLimit = p.rl]

HealthIdle ==
    /\ h = TwitterAccount("a1", 1, FALSE)
    /\ hlog = <<>>

PoolIdle ==
    /\ accounts = <<>>
    /\ pending = 0
    /\ acct = [o \in ObjSet |-> TwitterAccount(UsernameOf(o), 1, FALSE)]
    /\ db = [u \in {UsernameOf(o) : o \in ObjSet} |->
               Row(TwitterAccount(u, 1, FALSE))]
    /\ scrapers = {}
    /\ calls = [c \in Calls |-> IdleFrame]
    /\ now = 0
    /\ faults = 0
    /\ toggles = 0

\* The workloads: one caller on a pool of up to three accounts, or two
\* callers, whose calls may overlap, on a pool of up to two.
PoolInit ==
    /\ pending \in 1..Cardinality(Calls)
    /\ \E n \in 0..(Len(Objs) + 1 - pending) : accounts = SubSeq(Objs, 1, n)
    /\ \E ps \in [ObjSet -> Profiles] :
          /\ \A o \in ObjSet \ PoolObjs : ps[o] = Loaded(0, 0, FALSE, NoLimit)
          /\ acct = [o \in ObjSet |-> FromRow(o, ps[o])]
    /\ db = [u \in {UsernameOf(o) : o \in ObjSet} |->
               Row(acct[CHOOSE o \in ObjSet : UsernameOf(o) = u])]
    /\ scrapers = {}
    /\ calls = [c \in Calls |-> IdleFrame]
    /\ now = 0
    /\ faults = 0
    /\ toggles = 0

\* The parts of the service that are at rest while the pool is exercised.
IdleRun ==
    [state |-> "idle", items |-> <<>>, count |-> 0, concurrencyLimit |-> 0,
     queue |-> <<>>, results |-> <<>>, workers |-> <<>>, handed |-> <<>>,
     settled |-> <<>>]

RunIdle == run = IdleRun
MergeIdle == merge = [pc |-> "idle"]
ThreadIdle == thread = [pc |-> "idle"]
ProcIdle == proc = [pc |-> "idle"]
BatchIdle == batch = [pc |-> "idle"]
LimitsIdle == rateLimits = [o \in ObjSet |-> <<>>]
IdleSession == [pc |-> "idle", account |-> Null, outcome |-> "none", refused |-> FALSE, logouts |-> 0]
SessionIdle == session = IdleSession
TimelineIdle == timeline = [pc |-> "idle"]
HistoryIdle == history = [order |-> <<>>, changes |-> 0, removed |-> 0, recorded |-> 0]
AdminIdle == admin = [requests |-> <<>>, before |-> <<>>]
JobsIdle == jobs = [store |-> <<>>, responses |-> <<>>]

ReconcileIdle == RunIdle /\ MergeIdle /\ ThreadIdle /\ ProcIdle /\ BatchIdle

Init == PoolInit /\ HealthIdle /\ SessionIdle /\ TimelineIdle /\ HistoryIdle /\ AdminIdle /\ JobsIdle /\ ReconcileIdle /\ LimitsIdle

Next ==
    \/ \E c \in Calls : Begin(c)
    \/ \E c \in Calls : Probe(c)
    \/ \E c \in Calls : Login(c)
    \/ \E c \in Calls : Verify(c)
    \/ \E c \in Calls : Operation(c)
    \/ Tick
    \/ \E o \in ObjSet : EnableAccount(o)
    \/ \E o \in ObjSet : DisableAccount(o)

Spec == Init /\ [][Next]_vars

\* ------------------------------------------- the health of one account
\* updateAccountStatus(account, success) and account.enable() on one account
\* that starts enabled with nothing recorded; hlog lists what was done.
HealthRecord(success) ==
    /\ Len(hlog) < MaxOutcomes
    /\ h' = applyOutcome(h, success)
    /\ hlog' = Append(hlog, IF success THEN "success" ELSE "failure")
    /\ UNCHANGED <<accounts, acct, db, scrapers, calls, now, faults, toggles, pending,
                 run, merge, thread, proc, batch, rateLimits, session, timeline, history, admin, jobs>>

HealthEnable ==
    /\ Len(hlog) < MaxOutcomes
    /\ h.disabled
    /\ h' = enable(h)
    /\ hlog' = Append(hlog, "enable")
    /\ UNCHANGED <<accounts, acct, db, scrapers, calls, now, faults, toggles, pending,
                 run, merge, thread, proc, batch, rateLimits, session, timeline, history, admin, jobs>>

HealthInit == PoolIdle /\ HealthIdle /\ SessionIdle /\ TimelineIdle /\ HistoryIdle /\ AdminIdle /\ JobsIdle /\ ReconcileIdle /\ LimitsIdle

HealthNext ==
    \/ \E success \in BOOLEAN : HealthRecord(success)
    \/ HealthEnable

SpecHealth == HealthInit /\ [][HealthNext]_vars

\* ------------------------------------------------- _executeConcurrentTasks
\* One call of _executeConcurrentTasks(items, taskProcessor).  A step is the
\* code that runs when the call starts or when the promise a worker awaits
\* settles, up to the next await.  The record keeps items, concurrencyLimit,
\* queue, results and the workers of the code; count is the account count
\* read at the start, handed lists the indexes passed to taskProcessor in
\* the order of the calls, settled those whose promise has settled, in the
\* order in which they did.
Items == {"a", "b"}
MaxItems == 4

Max(x, y) == IF x >= y THEN x ELSE y

Empty == <<"empty">>
NoTask == [item |-> "none", index |-> 0]

\* What taskProcessor resolves to for an item.
taskProcessor(item) == <<"done", item>>

\* A faulty variant: one task more than there are accounts.
OneMoreThanAccounts(count) == count + 1

\* const concurrencyLimit = Math.max(1, accountManager.getAccountCount())
concurrencyLimit(count) == Max(1, count)

\* items.map((item, index) => ({ item, index }))
Enqueue(items) == [i \in 1..Len(items) |-> [item |-> items[i], index |-> i]]

\* A faulty variant: the result goes to the first free position.
StoreInCompletionOrder(results, task, value) ==
    LET free == {i \in 1..Len(results) : results[i] = Empty}
        first == CHOOSE i \in free : \A j \in free : i <= j
    IN [results EXCEPT ![first] = value]

\* results[task.index] = <the awaited value>
Store(results, task, value) == [results EXCEPT ![task.index] = value]

\* A faulty variant: the worker shifts a second task off the queue and
\* drops it.
ShiftsTwice(r, w) ==
    IF Len(r.queue) > 0
    THEN LET task == Head(r.queue)
         IN [r EXCEPT !.queue = IF Len(@) > 1 THEN Tail(Tail(@)) ELSE Tail(@),
                      !.workers[w] = [pc |-> "awaiting", task |-> task],
                      !.handed = Append(@, task.index)]
    ELSE [r EXCEPT !.workers[w] = [pc |-> "finished", task |-> NoTask]]

\* The worker w from the head of its while loop: it shifts a task off the
\* queue, calls taskProcessor and awaits, or returns when the queue is empty.
Worker(r, w) ==
    IF Len(r.queue) > 0
    THEN LET task == Head(r.queue)
         IN [r EXCEPT !.queue = Tail(@),
                      !.workers[w] = [pc |-> "awaiting", task |-> task],
                      !.handed = Append(@, task.index)]
    ELSE [r EXCEPT !.workers[w] = [pc |-> "finished", task |-> NoTask]]

\* Array(concurrencyLimit).fill(null).map(worker): the workers w..limit
\* start one after the other, each running up to its first await.
RECURSIVE StartWorkers(_, _)
StartWorkers(r, w) ==
    IF w > r.concurrencyLimit THEN r ELSE StartWorkers(Worker(r, w), w + 1)

\* await Promise.all(workers): the call returns results once every worker has
\* returned, and throws as soon as one worker has thrown.
PromiseAll(r) ==
    IF r.state # "running" THEN r
    ELSE IF \E w \in DOMAIN r.workers : r.workers[w].pc = "rejected"
         THEN [r EXCEPT !.state = "threw"]
         ELSE IF \A w \in DOMAIN r.workers : r.workers[w].pc = "finished"
              THEN [r EXCEPT !.state = "returned"]
              ELSE r

\* The call up to "await Promise.all(workers)".
StartRun(items, count) ==
    LET limit == concurrencyLimit(count)
        r == [state |-> "running", items |-> items, count |-> count,
              concurrencyLimit |-> limit, queue |-> Enqueue(items),
              results |-> [i \in 1..Len(items) |-> Empty],
              workers |-> [w \in 1..limit |-> [pc |-> "new", task |-> NoTask]],
              handed |-> <<>>, settled |-> <<>>]
    IN PromiseAll(StartWorkers(r, 1))

\* The promise worker w awaits resolves to value: the result is stored and
\* the worker goes round its loop.
Resolved(r, w, value) ==
    LET task == r.workers[w].task
        r1 == [r EXCEPT !.results = Store(@, task, value),
                        !.settled = Append(@, task.index)]
    IN PromiseAll(Worker(r1, w))

\* The promise worker w awaits rejects: the worker throws.
Rejected(r, w) ==
    LET task == r.workers[w].task
    IN PromiseAll([r EXCEPT !.workers[w] = [pc |-> "rejected", task |-> task],
                            !.settled = Append(@, task.index)])

Awaiting(r) == {w \in DOMAIN r.workers : r.workers[w].pc = "awaiting"}

RunnerRest == <<acct, db, scrapers, calls, now, faults, toggles, pending,
                h, hlog, merge, thread, proc, batch, rateLimits, session, timeline, history, admin, jobs>>

ExecuteConcurrentTasks ==
    /\ run.state = "idle"
    /\ run' = StartRun(run.items, Len(accounts))
    /\ UNCHANGED <<accounts, RunnerRest>>

TaskResolves(w) ==
    /\ w \in Awaiting(run)
    /\ run' = Resolved(run, w, taskProcessor(run.workers[w].task.item))
    /\ UNCHANGED <<accounts, RunnerRest>>

TaskRejects(w) ==
    /\ w \in Awaiting(run)
    /\ run' = Rejected(run, w)
    /\ UNCHANGED <<accounts, RunnerRest>>

\* addAccount / removeAccount while the call is running: the account count
\* changes.
PoolGrows ==
    /\ run.state = "running"
    /\ Len(accounts) < Len(Objs)
    /\ accounts' = SubSeq(Objs, 1, Len(accounts) + 1)
    /\ UNCHANGED <<run, RunnerRest>>

PoolShrinks ==
    /\ run.state = "running"
    /\ Len(accounts) > 0
    /\ accounts' = SubSeq(Objs, 1, Len(accounts) - 1)
    /\ UNCHANGED <<run, RunnerRest>>

RECURSIVE SeqsUpTo(_, _)
SeqsUpTo(S, n) ==
    IF n = 0 THEN {<<>>}
    ELSE LET shorter == SeqsUpTo(S, n - 1)
         IN shorter \cup {Append(q, x) : q \in shorter, x \in S}

RunnerInit ==
    /\ \E n \in 0..Len(Objs) : accounts = SubSeq(Objs, 1, n)
    /\ pending = 0
    /\ acct = [o \in ObjSet |-> TwitterAccount(UsernameOf(o), 1, FALSE)]
    /\ db = [u \in {UsernameOf(o) : o \in ObjSet} |->
               Row(TwitterAccount(u, 1, FALSE))]
    /\ scrapers = {}
    /\ calls = [c \in Calls |-> IdleFrame]
    /\ now = 0
    /\ faults = 0
    /\ toggles = 0
    /\ HealthIdle /\ SessionIdle /\ TimelineIdle /\ HistoryIdle /\ AdminIdle /\ JobsIdle
    /\ \E items \in SeqsUpTo(Items, MaxItems) : run = [IdleRun EXCEPT !.items = items]
    /\ MergeIdle /\ ThreadIdle /\ ProcIdle /\ BatchIdle /\ LimitsIdle

RunnerNext ==
    \/ ExecuteConcurrentTasks
    \/ \E w \in 1..(Len(Objs) + 1) : TaskResolves(w)
    \/ \E w \in 1..(Len(Objs) + 1) : TaskRejects(w)
    \/ PoolGrows
    \/ PoolShrinks

SpecRunner == RunnerInit /\ [][RunnerNext]_vars

\* The call when every task terminates without raising: no promise rejects,
\* and every promise a worker awaits resolves in the end.
RunnerFairNext ==
    \/ ExecuteConcurrentTasks
    \/ \E w \in 1..(Len(Objs) + 1) : TaskResolves(w)
    \/ PoolGrows
    \/ PoolShrinks

SpecRunnerFair ==
    /\ RunnerInit
    /\ [][RunnerFairNext]_vars
    /\ \A w \in 1..(Len(Objs) + 1) : WF_vars(TaskResolves(w))

\* --------------------------------------------------- _fetchAndMergeThreads
\* The tweets of a batch, with the fields _fetchAndMergeThreads reads: emoji
\* says that the text includes the thread emoji, repliedTo is
\* __raw_UNSTABLE.in_reply_to_screen_name, retweetedStatus the nested tweet
\* or NoStatus.  A tweet of a fetched thread is [thread, part].
MaxBatch == 3
ThreadLengths == {1, 3}

Status(emoji, conversationId) ==
    [present |-> TRUE, emoji |-> emoji, conversationId |-> conversationId]
NoStatus == [present |-> FALSE, emoji |-> FALSE, conversationId |-> Null]

Tweet(isRetweet, retweetedStatus, isReply, repliedTo, emoji, conversationId) ==
    [id |-> 0, isRetweet |-> isRetweet, retweetedStatus |-> retweetedStatus,
     isReply |-> isReply, repliedTo |-> repliedTo, emoji |-> emoji,
     conversationId |-> conversationId]

\* The kinds of tweet a batch is made of: without conversation; a reply to
\* the queried user in C; a reply to somebody else in C; a tweet of D with
\* the emoji; a reply without target in C; a retweet of a tweet of C with
\* the emoji; a retweet of a tweet of D without it; a tweet of D flagged
\* as retweet but without nested tweet; a retweet, itself in C, of a tweet
\* with the emoji but without conversation.
Shapes ==
    { Tweet(FALSE, NoStatus, FALSE, Null, FALSE, Null),
      Tweet(FALSE, NoStatus, TRUE, "User", FALSE, "C"),
      Tweet(FALSE, NoStatus, TRUE, "other", FALSE, "C"),
      Tweet(FALSE, NoStatus, FALSE, Null, TRUE, "D"),
      Tweet(FALSE, NoStatus, TRUE, Null, FALSE, "C"),
      Tweet(TRUE, Status(TRUE, "C"), FALSE, Null, FALSE, Null),
      Tweet(TRUE, Status(FALSE, "D"), FALSE, Null, FALSE, Null),
      Tweet(TRUE, NoStatus, FALSE, Null, FALSE, "D"),
      Tweet(TRUE, Status(TRUE, Null), FALSE, Null, FALSE, "C") }

\* String.prototype.toLowerCase on the screen names of the model.
toLowerCase(name) == IF name = "User" THEN "user" ELSE name

\* The first loop: the conversation the tweet asks to fetch, or Null.
PotentialThread(tweet, username) ==
    IF tweet.isRetweet /\ tweet.retweetedStatus.present
    THEN LET originalTweet == tweet.retweetedStatus
         IN IF originalTweet.emoji /\ originalTweet.conversationId # Null
            THEN originalTweet.conversationId ELSE Null
    ELSE LET repliedTo == tweet.repliedTo
             isSelfReply ==
                 tweet.isReply /\ (\/ /\ repliedTo # Null
                                      /\ toLowerCase(repliedTo) = toLowerCase(username)
                                   \/ repliedTo = Null)
         IN IF tweet.conversationId # Null /\ (isSelfReply \/ tweet.emoji)
            THEN tweet.conversationId ELSE Null

\* A faulty variant: the conversations are collected in a list, one entry
\* for every candidate.
RECURSIVE EveryCandidate(_, _)
EveryCandidate(tweets, username) ==
    IF tweets = <<>> THEN <<>>
    ELSE LET before == EveryCandidate(SubSeq(tweets, 1, Len(tweets) - 1), username)
             conversationId == PotentialThread(tweets[Len(tweets)], username)
         IN IF conversationId = Null THEN before ELSE Append(before, conversationId)

\* threadsToFetch, in insertion order (Array.from of the Set).
RECURSIVE ThreadsToFetch(_, _)
ThreadsToFetch(tweets, username) ==
    IF tweets = <<>> THEN <<>>
    ELSE LET before == ThreadsToFetch(SubSeq(tweets, 1, Len(tweets) - 1), username)
             conversationId == PotentialThread(tweets[Len(tweets)], username)
         IN IF conversationId = Null
               \/ \E k \in 1..Len(before) : before[k] = conversationId
            THEN before ELSE Append(before, conversationId)

\* The conversation id the final loop computes for a tweet.
WalkConversationId(tweet) ==
    IF tweet.isRetweet /\ tweet.retweetedStatus.present
    THEN tweet.retweetedStatus.conversationId
    ELSE tweet.conversationId

\* A faulty variant: the thread is pushed for every tweet of the conversation.
PushEveryTime(w, conversationId, fetched) ==
    [finalTweets |-> w.finalTweets \o fetched[conversationId],
     added |-> w.added \cup {conversationId}]

\* The branch of the final loop for a conversation with a fetched thread.
PushOnce(w, conversationId, fetched) ==
    IF conversationId \notin w.added
    THEN [finalTweets |-> w.finalTweets \o fetched[conversationId],
          added |-> w.added \cup {conversationId}]
    ELSE w

\* The final loop over the first n tweets; fetched is the Map fetchedThreads.
RECURSIVE Walk(_, _, _)
Walk(tweets, fetched, n) ==
    IF n = 0 THEN [finalTweets |-> <<>>, added |-> {}]
    ELSE LET w == Walk(tweets, fetched, n - 1)
             tweet == tweets[n]
             conversationId == WalkConversationId(tweet)
         IN IF conversationId # Null /\ conversationId \in DOMAIN fetched
            THEN PushOnce(w, conversationId, fetched)
            ELSE [w EXCEPT !.finalTweets = Append(@, tweet)]

ThreadOf(conversationId, n) ==
    [k \in 1..n |-> [thread |-> conversationId, part |-> k]]

MergeRest == <<accounts, acct, db, scrapers, calls, now, faults, toggles, pending,
               h, hlog, run, thread, proc, batch, rateLimits, session, timeline, history, admin, jobs>>

\* _fetchAndMergeThreads(tweets, username) up to the await of the fetches,
\* or to its return when there is nothing to fetch.
FetchAndMergeThreads ==
    /\ merge.pc = "called"
    /\ LET conversationIds == ThreadsToFetch(merge.tweets, merge.username)
       IN merge' = IF Len(conversationIds) = 0
                   THEN [merge EXCEPT !.pc = "returned",
                                      !.finalTweets = merge.tweets]
                   ELSE [merge EXCEPT !.pc = "fetching",
                                      !.conversationIds = conversationIds]
    /\ UNCHANGED MergeRest

\* The fetches have settled, each with a thread or with nothing (getThread
\* threw or returned an empty list): fetchedThreads is filled and the final
\* loop runs.
ThreadsFetched ==
    /\ merge.pc = "fetching"
    /\ LET asked == {merge.conversationIds[k] : k \in 1..Len(merge.conversationIds)}
       IN \E got \in SUBSET asked :
            \E len \in [got -> ThreadLengths] :
               LET fetchedThreads == [c \in got |-> ThreadOf(c, len[c])]
               IN merge' = [merge EXCEPT
                              !.pc = "returned",
                              !.fetchedThreads = fetchedThreads,
                              !.finalTweets =
                                  Walk(merge.tweets, fetchedThreads,
                                       Len(merge.tweets)).finalTweets]
    /\ UNCHANGED MergeRest

MergeInit ==
    /\ PoolIdle /\ HealthIdle /\ SessionIdle /\ TimelineIdle /\ HistoryIdle /\ AdminIdle /\ JobsIdle /\ LimitsIdle
    /\ RunIdle /\ ThreadIdle /\ ProcIdle /\ BatchIdle
    /\ \E shapes \in SeqsUpTo(Shapes, MaxBatch) :
          merge = [pc |-> "called",
                   tweets |-> [i \in 1..Len(shapes) |-> [shapes[i] EXCEPT !.id = i]],
                   username |-> "user", conversationIds |-> <<>>,
                   fetchedThreads |-> <<>>, finalTweets |-> <<>>]

MergeNext == FetchAndMergeThreads \/ ThreadsFetched

SpecMerge == MergeInit /\ [][MergeNext]_vars

\* ------------------------------------------------------------- getThread
\* The operation getThread hands to executeOperation.  A tweet of the source
\* is [id, hasTimestamp, timestamp]: timestamp is optional.
MaxBundle == 3
Timestamps == {0, 10, 20, 30}

SourceTweet(id, hasTimestamp, timestamp) ==
    [id |-> id, hasTimestamp |-> hasTimestamp, timestamp |-> timestamp]

SourceTweets(id) ==
    {SourceTweet(id, TRUE, t) : t \in Timestamps} \cup {SourceTweet(id, FALSE, 0)}

\* A faulty variant: a tweet without timestamp sorts behind the others.
TimestampOrLate(tweet) == IF tweet.hasTimestamp THEN tweet.timestamp ELSE 99

\* a.timestamp ?? 0
TimestampOr0(tweet) == IF tweet.hasTimestamp THEN tweet.timestamp ELSE 0

\* fullThread.sort((a, b) => (a.timestamp ?? 0) - (b.timestamp ?? 0)): the
\* sort is stable, an element goes behind the elements before it that the
\* comparator does not put after it.
RECURSIVE InsertByTimestamp(_, _)
InsertByTimestamp(x, s) ==
    IF s = <<>> THEN <<x>>
    ELSE IF TimestampOr0(x) - TimestampOr0(s[Len(s)]) < 0
         THEN Append(InsertByTimestamp(x, SubSeq(s, 1, Len(s) - 1)), s[Len(s)])
         ELSE Append(s, x)

RECURSIVE SortByTimestamp(_)
SortByTimestamp(s) ==
    IF s = <<>> THEN <<>>
    ELSE InsertByTimestamp(s[Len(s)], SortByTimestamp(SubSeq(s, 1, Len(s) - 1)))

ThreadRest == <<accounts, acct, db, scrapers, calls, now, faults, toggles, pending,
                h, hlog, run, merge, proc, batch, rateLimits, session, timeline, history, admin, jobs>>

\* What "await scraper.getTweet(tweetId)" gives: no tweet, a tweet without
\* conversationId, or a tweet of a conversation.
InitialResults == {"none", "alone", "inThread"}

\* The operation is called: await scraper.getTweet(tweetId).
GetThread ==
    /\ thread.pc = "called"
    /\ thread' = [thread EXCEPT !.pc = "initial"]
    /\ UNCHANGED ThreadRest

\* The first getTweet settles.
InitialTweetFetched ==
    /\ thread.pc = "initial"
    /\ \E got \in InitialResults \cup {"throws"} :
          thread' = CASE got = "throws" -> [thread EXCEPT !.pc = "threw"]
                      [] got = "none" ->
                           [thread EXCEPT !.pc = "returned", !.path = "none",
                                          !.result = <<>>]
                      [] got = "alone" ->
                           [thread EXCEPT !.pc = "returned", !.path = "alone",
                                          !.result = <<SourceTweet(-1, FALSE, 0)>>]
                      [] got = "inThread" -> [thread EXCEPT !.pc = "head"]
    /\ UNCHANGED ThreadRest

\* The getTweet of the head settles: nothing, an error, or the head with its
\* thread property.
HeadTweetFetched ==
    /\ thread.pc = "head"
    /\ \E got \in {"none", "throws", "head"} :
          thread' = CASE got = "throws" -> [thread EXCEPT !.pc = "threw"]
                      [] got = "none" ->
                           [thread EXCEPT !.pc = "returned", !.path = "none",
                                          !.result = <<>>]
                      [] got = "head" ->
                           LET fullThread == <<thread.headTweet>> \o thread.bundle
                           IN [thread EXCEPT !.pc = "returned", !.path = "head",
                                             !.result = SortByTimestamp(fullThread)]
    /\ UNCHANGED ThreadRest

\* The bundles of a head tweet: up to n tweets, with the ids 1, 2, ...
RECURSIVE Bundles(_)
Bundles(n) ==
    IF n = 0 THEN {<<>>}
    ELSE LET shorter == Bundles(n - 1)
         IN shorter \cup {Append(q, x) : q \in {b \in shorter : Len(b) = n - 1},
                                         x \in SourceTweets(n)}

ThreadInit ==
    /\ PoolIdle /\ HealthIdle /\ SessionIdle /\ TimelineIdle /\ HistoryIdle /\ AdminIdle /\ JobsIdle /\ LimitsIdle
    /\ RunIdle /\ MergeIdle /\ ProcIdle /\ BatchIdle
    /\ \E headTweet \in SourceTweets(0), bundle \in Bundles(MaxBundle) :
          thread = [pc |-> "called", headTweet |-> headTweet, bundle |-> bundle,
                    path |-> "none", result |-> <<>>]

ThreadNext == GetThread \/ InitialTweetFetched \/ HeadTweetFetched

SpecThread == ThreadInit /\ [][ThreadNext]_vars

\* --------------------------------------------------------- _processTweets
\* The task _processTweets runs on one tweet.  A text is described by what
\* the normalisation looks at: lead white-space characters, then body other
\* characters (line breaks inside count among them), then entities HTML
\* entities of EntityLength characters that each decode to one character,
\* then gap white-space characters, a t.co link of LinkLength characters if
\* url, and trail white-space characters at the end.
TRUNCATION_SUSPICION_THRESHOLD == 265
EntityLength == 5
LinkLength == 23
MinBody == 262
MaxBody == 266

Text(lead, body, entities, gap, url, trail) ==
    [lead |-> lead, body |-> body, entities |-> entities, gap |-> gap,
     url |-> url, trail |-> trail]

Texts ==
    {Text(lead, body, entities, gap, url, trail) :
        lead \in 0..1, body \in MinBody..MaxBody, entities \in 0..1,
        gap \in 0..1, url \in BOOLEAN, trail \in 0..1}

\* text.length
length(text) ==
    text.lead + text.body + EntityLength * text.entities + text.gap
        + (IF text.url THEN LinkLength ELSE 0) + text.trail

\* text.replace(/\s*https?:\/\/t\.co\/\w+$/, ''): the link goes, with the
\* white space before it, when nothing follows the link.
WithoutUrl(text) ==
    IF text.url /\ text.trail = 0
    THEN [text EXCEPT !.url = FALSE, !.gap = 0]
    ELSE text

\* he.decode(text): every entity becomes one character.
decode(text) == [text EXCEPT !.body = @ + text.entities, !.entities = 0]

\* String.prototype.trim, after the line breaks have become spaces.
trim(text) ==
    IF text.url
    THEN [text EXCEPT !.lead = 0, !.trail = 0]
    ELSE [text EXCEPT !.lead = 0, !.gap = 0, !.trail = 0]

_normalizeTweetText(text) == trim(decode(text))

\* A faulty variant: the threshold itself is not suspected.
AboveThreshold(len) == len > TRUNCATION_SUSPICION_THRESHOLD

\* textForLengthCheck.length >= TRUNCATION_SUSPICION_THRESHOLD
Suspected(len) == len >= TRUNCATION_SUSPICION_THRESHOLD

\* A retweeted tweet: hasId says that it has an id, version which copy of
\* the tweet it is.  The text and html of a batch tweet are named by where
\* they come from: the tweet's own, the nested tweet's, the fetched one's.
Original(hasId, text) ==
    [present |-> TRUE, hasId |-> hasId, text |-> text, version |-> "original"]
NoOriginal ==
    [present |-> FALSE, hasId |-> FALSE, text |-> Text(0, 0, 0, 0, FALSE, 0),
     version |-> "none"]

BatchTweet(isRetweet, retweetedStatus) ==
    [isRetweet |-> isRetweet, retweetedStatus |-> retweetedStatus,
     text |-> "own", html |-> "own"]

\* { ...tweet, text: originalTweet.text, html: originalTweet.html }
Mirrored(tweet) == [tweet EXCEPT !.text = "original", !.html = "original"]

\* { ...tweet, retweetedStatus: fullOriginalTweet, text: ..., html: ... }
Repaired(tweet) ==
    [tweet EXCEPT !.retweetedStatus.version = "full", !.text = "full",
                  !.html = "full"]

\* The task up to "await this.getTweet(originalTweet.id)" or to its return.
ProcessStart(tweet) ==
    IF tweet.isRetweet /\ tweet.retweetedStatus.present
    THEN LET originalTweet == tweet.retweetedStatus
             textWithoutUrl == WithoutUrl(originalTweet.text)
             textForLengthCheck == _normalizeTweetText(textWithoutUrl)
         IN IF originalTweet.hasId /\ Suspected(length(textForLengthCheck))
            THEN [pc |-> "fetching", tweet |-> tweet, fetched |-> TRUE,
                  result |-> tweet]
            ELSE [pc |-> "returned", tweet |-> tweet, fetched |-> FALSE,
                  result |-> Mirrored(tweet)]
    ELSE [pc |-> "returned", tweet |-> tweet, fetched |-> FALSE, result |-> tweet]

\* What "await this.getTweet(originalTweet.id)" can do: resolve to the full
\* tweet or to null, or reject.
FetchResults == {"full", "null", "throws"}

\* The task from the settling of getTweet to its return.
ProcessEnd(p, got) ==
    [p EXCEPT !.pc = "returned",
              !.result = IF got = "full" THEN Repaired(p.tweet)
                         ELSE Mirrored(p.tweet)]

ProcRest == <<accounts, acct, db, scrapers, calls, now, faults, toggles, pending,
              h, hlog, run, merge, thread, batch, rateLimits, session, timeline, history, admin, jobs>>

ProcessTweet ==
    /\ proc.pc = "called"
    /\ proc' = ProcessStart(proc.tweet)
    /\ UNCHANGED ProcRest

CorrectiveFetched ==
    /\ proc.pc = "fetching"
    /\ \E got \in FetchResults : proc' = ProcessEnd(proc, got)
    /\ UNCHANGED ProcRest

ProcInit ==
    /\ PoolIdle /\ HealthIdle /\ SessionIdle /\ TimelineIdle /\ HistoryIdle /\ AdminIdle /\ JobsIdle /\ LimitsIdle
    /\ RunIdle /\ MergeIdle /\ ThreadIdle /\ BatchIdle
    /\ \E isRetweet \in BOOLEAN,
          retweetedStatus \in {NoOriginal}
              \cup {Original(hasId, text) : hasId \in BOOLEAN, text \in Texts} :
          proc = [pc |-> "called", tweet |-> BatchTweet(isRetweet, retweetedStatus),
                  fetched |-> FALSE,
                  result |-> BatchTweet(isRetweet, retweetedStatus)]

ProcNext == ProcessTweet \/ CorrectiveFetched

SpecProcess == ProcInit /\ [][ProcNext]_vars

\* ------------------------------------------- _postProcessAndFetchThreads
\* What getTweets, getLatestTweet and searchTweets do with the tweets their
\* own fetch has returned: _processTweets, then _fetchAndMergeThreads when
\* there is a username (searchTweets passes none).  Both fan out through
\* _executeConcurrentTasks; run holds the call that is under way.  The
\* corrective fetches are calls of executeOperation: they return, throw the
\* all-accounts-failed error or throw what a failed write threw.
MaxTweets == 2

LongText == Text(0, TRUNCATION_SUSPICION_THRESHOLD, 0, 0, FALSE, 0)
ShortText == Text(0, TRUNCATION_SUSPICION_THRESHOLD - 1, 0, 0, FALSE, 0)

\* A tweet with the fields of both passes.
Fetched(isRetweet, retweetedStatus, isReply, repliedTo, emoji, conversationId) ==
    [id |-> 0, isRetweet |-> isRetweet, retweetedStatus |-> retweetedStatus,
     isReply |-> isReply, repliedTo |-> repliedTo, emoji |-> emoji,
     conversationId |-> conversationId, text |-> "own", html |-> "own"]

Nested(hasId, text, emoji, conversationId) ==
    [present |-> TRUE, hasId |-> hasId, text |-> text, version |-> "original",
     emoji |-> emoji, conversationId |-> conversationId]
NoNested ==
    [present |-> FALSE, hasId |-> FALSE, text |-> ShortText, version |-> "none",
     emoji |-> FALSE, conversationId |-> Null]

\* The tweets of a batch: one outside any conversation; a reply to the
\* queried user in C; a retweet of a long tweet of D with the emoji; a
\* retweet of a short tweet.
FetchedShapes ==
    { Fetched(FALSE, NoNested, FALSE, Null, FALSE, Null),
      Fetched(FALSE, NoNested, TRUE, "User", FALSE, "C"),
      Fetched(TRUE, Nested(TRUE, LongText, TRUE, "D"), FALSE, Null, FALSE, Null),
      Fetched(TRUE, Nested(TRUE, ShortText, FALSE, Null), FALSE, Null, FALSE, Null) }

TweetResults == {"full", "null", "allFailed", "thrown"}
ThreadResults == {"thread", "empty", "allFailed", "thrown"}
Failures == {"allFailed", "thrown"}

\* A faulty variant: the tasks have no try / catch.
Uncaught(got) == got \notin Failures

\* try { await this.getTweet(...) } catch / try { await this.getThread(...) }
\* catch: the task returns normally whatever the fetch did.
Caught(got) == TRUE

\* What the thread task returns: { conversationId, thread } or
\* { conversationId, thread: null }, null being the empty list here.
ThreadResult(conversationId, got) ==
    [conversationId |-> conversationId,
     thread |-> IF got = "thread" THEN ThreadOf(conversationId, 3) ELSE <<>>]

\* fetchedThreads: the Map filled from the results that carry a thread.
FetchedThreads(results) ==
    LET with == {k \in 1..Len(results) : results[k].thread # <<>>}
    IN [c \in {results[k].conversationId : k \in with} |->
           results[CHOOSE k \in with : results[k].conversationId = c].thread]

\* The operations that hand their tweets to _postProcessAndFetchThreads, and
\* the username each passes on: searchTweets passes none.
Operations == {"getTweets", "getLatestTweet", "searchTweets"}
UsernamePassed(operation) == IF operation = "searchTweets" THEN Null ELSE "user"

\* A faulty variant: the thread pass is never run.
NeverMerges(username) == FALSE

\* "if (username)" in _postProcessAndFetchThreads.
RunsThreadPass(username) == username # Null

BatchRest == <<acct, db, scrapers, calls, now, faults, toggles, pending,
               h, hlog, merge, thread, proc, rateLimits, session, timeline, history, admin, jobs>>

\* _postProcessAndFetchThreads(tweets, username) up to the await in
\* _processTweets.
PostProcessAndFetchThreads ==
    /\ batch.pc = "called"
    /\ run' = StartRun(batch.tweets, Len(accounts))
    /\ batch' = [batch EXCEPT !.pc = "processing",
                              !.passes = Append(@, "_processTweets")]
    /\ UNCHANGED <<accounts, BatchRest>>

\* The task a worker of _processTweets awaits settles.
ProcessTaskSettles(w) ==
    /\ batch.pc = "processing"
    /\ w \in Awaiting(run)
    /\ LET task == run.workers[w].task
           p == ProcessStart(task.item)
       IN IF p.pc = "returned"
          THEN /\ run' = Resolved(run, w, p.result)
               /\ UNCHANGED batch
          ELSE \E got \in TweetResults :
                 /\ run' = IF Caught(got)
                           THEN Resolved(run, w, ProcessEnd(p, got).result)
                           ELSE Rejected(run, w)
                 /\ batch' = IF got \in Failures
                             THEN [batch EXCEPT !.failedTweets = @ \cup {task.index}]
                             ELSE batch
    /\ UNCHANGED <<accounts, BatchRest>>

\* _processTweets has settled: _postProcessAndFetchThreads returns the
\* processed tweets, or _fetchAndMergeThreads runs up to its await.
Processed ==
    /\ batch.pc = "processing"
    /\ run.state \in {"returned", "threw"}
    /\ IF run.state = "threw"
       THEN /\ batch' = [batch EXCEPT !.pc = "threw"]
            /\ run' = IdleRun
       ELSE LET processedTweets == run.results
                merges == RunsThreadPass(batch.username)
                conversationIds ==
                    IF merges THEN ThreadsToFetch(processedTweets, batch.username)
                    ELSE <<>>
                passes == IF merges THEN Append(batch.passes, "_fetchAndMergeThreads")
                          ELSE batch.passes
            IN IF Len(conversationIds) = 0
               THEN /\ batch' = [batch EXCEPT !.pc = "returned",
                                              !.passes = passes,
                                              !.processedTweets = processedTweets,
                                              !.finalTweets = processedTweets]
                    /\ run' = IdleRun
               ELSE /\ batch' = [batch EXCEPT !.pc = "fetching",
                                              !.passes = passes,
                                              !.processedTweets = processedTweets]
                    /\ run' = StartRun(conversationIds, Len(accounts))
    /\ UNCHANGED <<accounts, BatchRest>>

\* The task a worker of the thread fetch awaits settles.
ThreadTaskSettles(w) ==
    /\ batch.pc = "fetching"
    /\ w \in Awaiting(run)
    /\ LET task == run.workers[w].task
       IN \E got \in ThreadResults :
            /\ run' = IF Caught(got)
                      THEN Resolved(run, w, ThreadResult(task.item, got))
                      ELSE Rejected(run, w)
            /\ batch' = IF got \in Failures
                        THEN [batch EXCEPT !.failedThreads = @ \cup {task.item}]
                        ELSE batch
    /\ UNCHANGED <<accounts, BatchRest>>

\* The thread fetches have settled: the Map is filled, the final loop runs
\* and _postProcessAndFetchThreads returns.
Merged ==
    /\ batch.pc = "fetching"
    /\ run.state \in {"returned", "threw"}
    /\ batch' = IF run.state = "threw"
                THEN [batch EXCEPT !.pc = "threw"]
                ELSE LET fetchedThreads == FetchedThreads(run.results)
                     IN [batch EXCEPT
                           !.pc = "returned",
                           !.fetchedThreads = fetchedThreads,
                           !.finalTweets =
                               Walk(batch.processedTweets, fetchedThreads,
                                    Len(batch.processedTweets)).finalTweets]
    /\ run' = IdleRun
    /\ UNCHANGED <<accounts, BatchRest>>

BatchInit ==
    /\ \E n \in 0..Len(Objs) : accounts = SubSeq(Objs, 1, n)
    /\ pending = 0
    /\ acct = [o \in ObjSet |-> TwitterAccount(UsernameOf(o), 1, FALSE)]
    /\ db = [u \in {UsernameOf(o) : o \in ObjSet} |->
               Row(TwitterAccount(u, 1, FALSE))]
    /\ scrapers = {}
    /\ calls = [c \in Calls |-> IdleFrame]
    /\ now = 0
    /\ faults = 0
    /\ toggles = 0
    /\ HealthIdle /\ SessionIdle /\ TimelineIdle /\ HistoryIdle /\ AdminIdle /\ JobsIdle /\ LimitsIdle
    /\ RunIdle /\ MergeIdle /\ ThreadIdle /\ ProcIdle
    /\ \E shapes \in SeqsUpTo(FetchedShapes, MaxTweets), operation \in Operations :
          /\ operation = "getLatestTweet" => Len(shapes) = 1
          /\ batch =
                  [pc |-> "called", operation |-> operation, passes |-> <<>>,
                   tweets |-> [i \in 1..Len(shapes) |-> [shapes[i] EXCEPT !.id = i]],
                   username |-> UsernamePassed(operation), processedTweets |-> <<>>,
                   fetchedThreads |-> <<>>, finalTweets |-> <<>>,
                   failedTweets |-> {}, failedThreads |-> {}]

BatchNext ==
    \/ PostProcessAndFetchThreads
    \/ \E w \in 1..(Len(Objs) + 1) : ProcessTaskSettles(w)
    \/ Processed
    \/ \E w \in 1..(Len(Objs) + 1) : ThreadTaskSettles(w)
    \/ Merged

SpecBatch == BatchInit /\ [][BatchNext]_vars

\* ------------------------------------------------------------ rate limits
\* The rate limits of the accounts and what canUse, waitTimeFor and
\* getWaitTime answer.  rateLimits[o][endpoint] is the entry of the Map of
\* account o, has being false when the Map has no entry for the endpoint.
Endpoints == {"tweets", "search"}
MaxClock == 3
\* The entries written, as <<remaining, reset>>: none left until 1, none left
\* until 3, two left until 3.
Limits == {<<0, 1>>, <<0, 3>>, <<2, 3>>}

RateLimitInfo(remaining, reset) ==
    [has |-> TRUE, remaining |-> remaining, reset |-> reset]

\* The account o as the methods called with the endpoint see it.
AccountAt(A, R, endpoint) ==
    [o \in ObjSet |-> [A[o] EXCEPT !.rateLimit = R[o][endpoint]]]

\* A faulty variant: the requests left are not looked at.
WaitUntilReset(a, t) ==
    IF ~a.rateLimit.has THEN 0
    ELSE IF t >= a.rateLimit.reset THEN 0
         ELSE a.rateLimit.reset - t

\* waitTimeFor(endpoint)
waitTimeFor(a, t) ==
    IF ~a.rateLimit.has THEN 0
    ELSE IF a.rateLimit.remaining > 0 \/ t >= a.rateLimit.reset THEN 0
         ELSE a.rateLimit.reset - t

\* getAvailableAccountCount(endpoint)
getAvailableAccountCount(pool, A, t) ==
    Cardinality({i \in 1..Len(pool) : ~A[pool[i]].disabled /\ canUse(A[pool[i]], t)})

\* Number.MAX_SAFE_INTEGER, by the largest number of the model.
MAX_SAFE_INTEGER == 2147483647

\* A faulty variant of the loop: disabled accounts are not skipped.
MinWaitTimeOfAll(pool, A, t, n) ==
    LET waits == {waitTimeFor(A[pool[i]], t) : i \in 1..n} \cup {MAX_SAFE_INTEGER}
    IN CHOOSE w \in waits : \A v \in waits : w <= v

\* The loop of getWaitTime over the first n accounts: minWaitTime.
RECURSIVE MinWaitTime(_, _, _, _)
MinWaitTime(pool, A, t, n) ==
    IF n = 0 THEN MAX_SAFE_INTEGER
    ELSE LET minWaitTime == MinWaitTime(pool, A, t, n - 1)
             account == A[pool[n]]
         IN IF account.disabled THEN minWaitTime
            ELSE LET waitTime == waitTimeFor(account, t)
                 IN IF waitTime < minWaitTime THEN waitTime ELSE minWaitTime

\* getWaitTime(endpoint), the reads of the clock in one call giving the same
\* second.
getWaitTime(pool, A, t) ==
    IF getAvailableAccountCount(pool, A, t) > 0 THEN 0
    ELSE LET minWaitTime == MinWaitTime(pool, A, t, Len(pool))
         IN IF minWaitTime = MAX_SAFE_INTEGER THEN 0 ELSE minWaitTime

LimitsRest == <<accounts, db, scrapers, calls, faults, toggles, pending,
                h, hlog, run, merge, thread, proc, batch, session, timeline, history, admin, jobs>>

\* account.updateRateLimit(endpoint, remaining, reset, limit)
UpdateRateLimit(o, endpoint, remaining, reset) ==
    /\ o \in PoolObjs
    /\ rateLimits' = [rateLimits EXCEPT ![o][endpoint] = RateLimitInfo(remaining, reset)]
    /\ UNCHANGED <<acct, now, LimitsRest>>

\* account.disable() / account.enable()
AccountDisabled(o) ==
    /\ o \in PoolObjs
    /\ ~acct[o].disabled
    /\ acct' = [acct EXCEPT ![o] = disable(@)]
    /\ UNCHANGED <<rateLimits, now, LimitsRest>>

AccountEnabled(o) ==
    /\ o \in PoolObjs
    /\ acct[o].disabled
    /\ acct' = [acct EXCEPT ![o] = enable(@)]
    /\ UNCHANGED <<rateLimits, now, LimitsRest>>

\* A second passes.
ClockAdvances ==
    /\ now < MaxClock
    /\ now' = now + 1
    /\ UNCHANGED <<acct, rateLimits, LimitsRest>>

LimitsInit ==
    /\ \E n \in 0..Len(Objs) : accounts = SubSeq(Objs, 1, n)
    /\ pending = 0
    /\ acct = [o \in ObjSet |-> TwitterAccount(UsernameOf(o), 1, FALSE)]
    /\ db = [u \in {UsernameOf(o) : o \in ObjSet} |->
               Row(TwitterAccount(u, 1, FALSE))]
    /\ scrapers = {}
    /\ calls = [c \in Calls |-> IdleFrame]
    /\ now = 0
    /\ faults = 0
    /\ toggles = 0
    /\ HealthIdle /\ SessionIdle /\ TimelineIdle /\ HistoryIdle /\ AdminIdle /\ JobsIdle /\ ReconcileIdle
    /\ rateLimits = [o \in ObjSet |-> [e \in Endpoints |-> NoLimit]]

LimitsNext ==
    \/ \E o \in ObjSet, endpoint \in Endpoints, limit \in Limits :
          UpdateRateLimit(o, endpoint, limit[1], limit[2])
    \/ \E o \in ObjSet : AccountDisabled(o)
    \/ \E o \in ObjSet : AccountEnabled(o)
    \/ ClockAdvances

SpecLimits == LimitsInit /\ [][LimitsNext]_vars

\* ------------------------------------------------ login() and logout()
\* TwitterService.login() and TwitterService.logout(), called while
\* executeOperation calls run.  session is the frame of the one login()
\* call: pc, the account it selected, what it handed to its caller (outcome)
\* and whether anything stood in the way of the authentication (refused:
\* scraper.login rejected, the probe behind it did not report a session, or
\* a write to the database failed); logouts counts the logout() calls.

\* logout() calls over one behaviour.
MaxLogouts == 1
\* The account objects next to the login() call: one executeOperation call
\* on a pool of up to two accounts, or two calls on a pool of up to one.
LoginObjs == <<"o1", "o2">>

\* canUse() without an endpoint does not look at the rate-limit map.
WithoutEndpoint(A) == [o \in DOMAIN A |-> [A[o] EXCEPT !.rateLimit = NoLimit]]

SessionEffect(m, fs, frame) ==
    /\ acct' = m.acct
    /\ db' = m.db
    /\ faults' = faults + Cardinality({i \in DOMAIN fs : fs[i]})
    /\ session' = frame
    /\ UNCHANGED <<accounts, scrapers, calls, now, toggles, pending, h, hlog, run, merge, thread, proc, batch, rateLimits, timeline, history, admin, jobs>>

\* login() up to the await of scraper.login in loginWithAccount, or to one
\* of the two throws before it.
ServiceLogin ==
    /\ session.pc = "idle"
    /\ LET account == getBestAvailableAccount(accounts, WithoutEndpoint(acct), now)
       IN SessionEffect(Mem, NoFaults,
            IF account = Null
            THEN [session EXCEPT !.pc = "threw",
                                 !.outcome = "No Twitter accounts available"]
            ELSE IF acct[account].username \notin scrapers
            THEN [session EXCEPT !.pc = "threw", !.account = account,
                                 !.outcome = "No scraper found for account"]
            ELSE [session EXCEPT !.pc = "login", !.account = account])

\* The catch block of loginWithAccount, under login().
ServiceLoginThrew(m, fs, asked) ==
    LET o == session.account
        m1 == updateAccountStatus([m EXCEPT !.acct[o].isLoggedIn = FALSE],
                                  o, FALSE, fs[asked])
    IN /\ FaultChoice(fs, 1..asked)
       /\ SessionEffect(m1, fs, [session EXCEPT !.pc = "threw", !.outcome = "error",
                                                !.refused = TRUE])

\* login(): "await scraper.login(...)" settles.
ServiceLoginSettles ==
    /\ session.pc = "login"
    /\ \E ok \in BOOLEAN, fs \in [1..4 -> BOOLEAN] :
          IF ok
          THEN /\ fs = NoFaults
               /\ SessionEffect(Mem, fs, [session EXCEPT !.pc = "verify"])
          ELSE ServiceLoginThrew(Mem, fs, 1)

\* login(): "await scraper.isLoggedIn()" after the login settles; login()
\* returns what the probe said.
ServiceProbeSettles ==
    /\ session.pc = "verify"
    /\ LET o == session.account
       IN \E probe \in ProbeResults, fs \in [1..4 -> BOOLEAN] :
            LET alive == probe = "alive"
                m0 == [Mem EXCEPT !.acct[o].isLoggedIn = alive]
                m1 == updateAccountStatus(m0, o, alive, fs[1])
            IN IF probe = "throws"
               THEN ServiceLoginThrew(Mem, fs, 1)
               ELSE IF fs[1]
               THEN ServiceLoginThrew(m1, fs, 2)
               ELSE /\ FaultChoice(fs, {1})
                    /\ SessionEffect(m1, fs,
                          [session EXCEPT !.pc = "returned",
                                          !.outcome = IF alive THEN "true" ELSE "false",
                                          !.refused = ~alive])

\* logout(): every account of the pool that is flagged logged in and has a
\* handle gets scraper.logout() and the flag cleared; the handles stay.
logout ==
    /\ session.logouts < MaxLogouts
    /\ acct' = [o \in ObjSet |->
                  IF o \in PoolObjs /\ acct[o].isLoggedIn /\ acct[o].username \in scrapers
                  THEN [acct[o] EXCEPT !.isLoggedIn = FALSE] ELSE acct[o]]
    /\ session' = [session EXCEPT !.logouts = @ + 1]
    /\ UNCHANGED <<accounts, db, scrapers, calls, now, faults, toggles, pending, h, hlog, run, merge, thread, proc, batch, rateLimits, timeline, history, admin, jobs>>

LoginInit ==
    /\ Init
    /\ Len(accounts) <= Len(LoginObjs) + 1 - pending

LoginNext ==
    \/ Next
    \/ ServiceLogin
    \/ ServiceLoginSettles
    \/ ServiceProbeSettles
    \/ logout

SpecLogin == LoginInit /\ [][LoginNext]_vars

\* ------------------------------------------ addAccount and removeAccount
\* AccountManager.addAccount and removeAccount on a pool that starts empty
\* (first start, no seed file), with outcomes recorded in between.  An
\* account object is one of Objs; a removed object's place is free for the
\* next new TwitterAccount.  history.order lists the objects of the pool in
\* the order they were pushed, history.changes counts the addAccount and
\* removeAccount calls, history.removed the objects spliced out and
\* history.recorded the updateAccountStatus calls.

\* addAccount / removeAccount calls over one behaviour.
MaxChanges == 4
\* updateAccountStatus calls over one behaviour.
MaxRecorded == 1

Usernames == {UsernameOf(o) : o \in ObjSet}
\* config.priority as the caller gives it.
Priorities == {0, 1, 2}

\* "config.priority || 1"
PriorityOr1(p) == IF p = 0 THEN 1 ELSE p

\* A faulty variant: an element goes in front of the elements of equal
\* priority, as with a sort that is not stable.
RECURSIVE InsertBeforeEqual(_, _, _)
InsertBeforeEqual(A, x, s) ==
    IF s = <<>> THEN <<x>>
    ELSE IF A[s[Len(s)]].priority >= A[x].priority
         THEN Append(InsertBeforeEqual(A, x, SubSeq(s, 1, Len(s) - 1)), s[Len(s)])
         ELSE Append(s, x)

\* this.accounts.sort((a, b) => a.priority - b.priority): the sort is
\* stable, so an element goes behind the elements before it whose priority
\* is not greater.
RECURSIVE InsertByPriority(_, _, _)
InsertByPriority(A, x, s) ==
    IF s = <<>> THEN <<x>>
    ELSE IF A[s[Len(s)]].priority > A[x].priority
         THEN Append(InsertByPriority(A, x, SubSeq(s, 1, Len(s) - 1)), s[Len(s)])
         ELSE Append(s, x)

RECURSIVE SortByPriority(_, _)
SortByPriority(A, s) ==
    IF s = <<>> THEN <<>>
    ELSE InsertByPriority(A, s[Len(s)], SortByPriority(A, SubSeq(s, 1, Len(s) - 1)))

\* this.accounts.findIndex(account => account.username === username), with
\* 0 for the -1 of the code.
findIndex(A, s, u) ==
    IF \E i \in 1..Len(s) : A[s[i]].username = u
    THEN CHOOSE i \in 1..Len(s) :
            /\ A[s[i]].username = u
            /\ \A j \in 1..(i - 1) : A[s[j]].username # u
    ELSE 0

\* array.splice(index, 1)
splice(s, index) == SubSeq(s, 1, index - 1) \o SubSeq(s, index + 1, Len(s))

\* The object a "new TwitterAccount(config)" becomes.
NewObject == Objs[CHOOSE i \in 1..Len(Objs) :
                    /\ Objs[i] \notin PoolObjs
                    /\ \A j \in 1..(i - 1) : Objs[j] \in PoolObjs]

MembersRest == <<scrapers, calls, now, faults, toggles, pending, h, hlog, run, merge, thread, proc, batch, rateLimits, session, timeline, admin, jobs>>

\* addAccount(config): the row is inserted, or on a conflict of username
\* its password, email, priority and tags are updated; then the new object
\* is pushed and the pool sorted by priority.  (When the database throws,
\* the call ends there and nothing has changed.)
addAccount(u, p, d) ==
    /\ history.changes < MaxChanges
    /\ Len(accounts) < Len(Objs)
    /\ LET o == NewObject
           account == TwitterAccount(u, PriorityOr1(p), d)
           A == [acct EXCEPT ![o] = account]
       IN /\ db' = IF u \in DOMAIN db THEN db
                   ELSE [v \in DOMAIN db \cup {u} |->
                           IF v = u THEN Row(account) ELSE db[v]]
          /\ acct' = A
          /\ accounts' = SortByPriority(A, Append(accounts, o))
          /\ history' = [history EXCEPT !.order = Append(@, o),
                                        !.changes = @ + 1]
          /\ UNCHANGED MembersRest

\* removeAccount(username): the row is deleted, then the first object of
\* that username is spliced out of the pool.
removeAccount(u) ==
    /\ history.changes < MaxChanges
    /\ LET index == findIndex(acct, accounts, u)
       IN /\ db' = [v \in DOMAIN db \ {u} |-> db[v]]
          /\ accounts' = IF index = 0 THEN accounts ELSE splice(accounts, index)
          /\ history' = [history EXCEPT
                !.order = IF index = 0 THEN @
                          ELSE splice(@, CHOOSE i \in 1..Len(@) : @[i] = accounts[index]),
                !.changes = @ + 1,
                !.removed = IF index = 0 THEN @ ELSE @ + 1]
          /\ UNCHANGED <<acct, MembersRest>>

\* updateAccountStatus(account, success) on an account of the pool.
RecordOutcome(o, success) ==
    /\ history.recorded < MaxRecorded
    /\ o \in PoolObjs
    /\ LET m == updateAccountStatus(Mem, o, success, FALSE)
       IN /\ acct' = m.acct
          /\ db' = m.db
    /\ history' = [history EXCEPT !.recorded = @ + 1]
    /\ UNCHANGED <<accounts, MembersRest>>

MembersInit ==
    /\ accounts = <<>>
    /\ pending = 0
    /\ acct = [o \in ObjSet |-> TwitterAccount(UsernameOf(o), 1, FALSE)]
    /\ db = [u \in {} |-> Row(TwitterAccount(u, 1, FALSE))]
    /\ scrapers = {}
    /\ calls = [c \in Calls |-> IdleFrame]
    /\ now = 0
    /\ faults = 0
    /\ toggles = 0
    /\ HealthIdle /\ SessionIdle /\ TimelineIdle /\ HistoryIdle /\ AdminIdle /\ JobsIdle /\ ReconcileIdle /\ LimitsIdle

MembersNext ==
    \/ \E u \in Usernames, p \in Priorities, d \in BOOLEAN : addAccount(u, p, d)
    \/ \E u \in Usernames : removeAccount(u)
    \/ \E o \in ObjSet, success \in BOOLEAN : RecordOutcome(o, success)

SpecMembers == MembersInit /\ [][MembersNext]_vars

\* ---------------------------------------------------------------- getTweets
\* The operation getTweets hands to executeOperation: the for await loop
\* over scraper.getTweets(username, maxTweets).  A string is the sequence of
\* its characters, here digits, <<>> being the empty string and also an id
\* or sinceId that is undefined (both are falsy).  timeline keeps the tweets
\* the generator has in store (source), sinceId, how many tweets the loop
\* has taken (position) and collectedTweets.

\* Tweets the generator can yield in one call.
MaxSource == 3

NoId == <<>>
IdStrings == {<<1>>, <<9>>, <<1, 0>>, <<1, 1>>, <<9, 0>>}

\* A faulty variant: the ids are compared as numbers, the one of fewer
\* digits being the smaller.
NumericLessOrEqual(x, y) ==
    \/ Len(x) < Len(y)
    \/ /\ Len(x) = Len(y)
       /\ \/ x = y
          \/ \E k \in 1..Len(x) :
                /\ \A j \in 1..(k - 1) : x[j] = y[j]
                /\ x[k] < y[k]

\* x <= y on strings: the first character that differs decides, and a
\* proper prefix is less.
RECURSIVE LessOrEqual(_, _)
LessOrEqual(x, y) ==
    IF x = <<>> THEN TRUE
    ELSE IF y = <<>> THEN FALSE
    ELSE IF Head(x) < Head(y) THEN TRUE
    ELSE IF Head(x) > Head(y) THEN FALSE
    ELSE LessOrEqual(Tail(x), Tail(y))

\* "sinceId && tweet.id && tweet.id <= sinceId"
ReachedSinceId(tweet, sinceId) ==
    sinceId # <<>> /\ tweet.id # <<>> /\ LessOrEqual(tweet.id, sinceId)

TimelineRest == <<accounts, acct, db, scrapers, calls, now, faults, toggles, pending,
                  h, hlog, run, merge, thread, proc, batch, rateLimits, session, history, admin, jobs>>

\* The operation is invoked: the generator is made, collectedTweets is
\* empty, the loop awaits the first tweet.
GetTweets ==
    /\ timeline.pc = "called"
    /\ timeline' = [timeline EXCEPT !.pc = "iterating"]
    /\ UNCHANGED TimelineRest

\* The generator yields its next tweet: break, or push and await the next.
TweetYielded ==
    /\ timeline.pc = "iterating"
    /\ timeline.position < Len(timeline.source)
    /\ LET tweet == timeline.source[timeline.position + 1]
       IN timeline' =
            IF ReachedSinceId(tweet, timeline.sinceId)
            THEN [timeline EXCEPT !.pc = "returned", !.position = @ + 1]
            ELSE [timeline EXCEPT !.position = @ + 1,
                                  !.collectedTweets = Append(@, tweet)]
    /\ UNCHANGED TimelineRest

\* The generator is done: the operation returns collectedTweets.
GeneratorDone ==
    /\ timeline.pc = "iterating"
    /\ timeline.position = Len(timeline.source)
    /\ timeline' = [timeline EXCEPT !.pc = "returned"]
    /\ UNCHANGED TimelineRest

\* The generator rejects: the operation throws and collectedTweets is lost.
GeneratorThrows ==
    /\ timeline.pc = "iterating"
    /\ timeline' = [timeline EXCEPT !.pc = "threw", !.collectedTweets = <<>>]
    /\ UNCHANGED TimelineRest

TimelineInit ==
    /\ PoolIdle /\ HealthIdle /\ SessionIdle /\ HistoryIdle /\ AdminIdle /\ JobsIdle /\ LimitsIdle
    /\ ReconcileIdle
    /\ \E ids \in SeqsUpTo(IdStrings \cup {NoId}, MaxSource),
          sinceId \in IdStrings \cup {NoId} :
          timeline = [pc |-> "called",
                      source |-> [i \in 1..Len(ids) |-> [key |-> i, id |-> ids[i]]],
                      sinceId |-> sinceId, position |-> 0,
                      collectedTweets |-> <<>>]

TimelineNext ==
    \/ GetTweets
    \/ TweetYielded
    \/ GeneratorDone
    \/ GeneratorThrows

SpecTimeline == TimelineInit /\ [][TimelineNext]_vars

\* ------------------------------------------ the enable / disable endpoints
\* enableAccount and disableAccount of the accounts controller on a pool
\* loaded from the table.  An account may be reserved by an executeOperation
\* call that is waiting for the external source; the steps of such calls
\* are not taken here.  admin.requests lists the requests served, each with
\* the status of its response, and admin.before is the pool and its objects
\* as they were when the last request came in.

\* Requests to the two endpoints over one behaviour.
MaxRequests == 2

\* accountManager.getAccount(username): this.accounts.find(...), with Null
\* for undefined.
getAccount(A, s, u) ==
    LET index == findIndex(A, s, u)
    IN IF index = 0 THEN Null ELSE s[index]

Request(kind, u, status) == [kind |-> kind, username |-> u, status |-> status]

AdminRest == <<accounts, db, scrapers, calls, now, faults, toggles, pending, h, hlog, run, merge, thread, proc, batch, rateLimits, session, timeline, history, jobs>>

Served(kind, u, status) ==
    admin' = [requests |-> Append(admin.requests, Request(kind, u, status)),
              before |-> [accounts |-> accounts, acct |-> acct]]

\* PUT /accounts/:username/enable
enableAccount(u) ==
    /\ Len(admin.requests) < MaxRequests
    /\ LET account == getAccount(acct, accounts, u)
       IN IF account = Null
          THEN /\ Served("enable", u, 404)
               /\ UNCHANGED <<acct, AdminRest>>
          ELSE /\ acct' = [acct EXCEPT ![account] = enable(@)]
               /\ Served("enable", u, 200)
               /\ UNCHANGED AdminRest

\* PUT /accounts/:username/disable
disableAccount(u) ==
    /\ Len(admin.requests) < MaxRequests
    /\ LET account == getAccount(acct, accounts, u)
       IN IF account = Null
          THEN /\ Served("disable", u, 404)
               /\ UNCHANGED <<acct, AdminRest>>
          ELSE /\ acct' = [acct EXCEPT ![account] = disable(@)]
               /\ Served("disable", u, 200)
               /\ UNCHANGED AdminRest

AdminInit ==
    /\ \E n \in 0..Len(Objs) : accounts = SubSeq(Objs, 1, n)
    /\ pending = 0
    /\ \E ps \in [ObjSet -> Profiles], held \in SUBSET PoolObjs :
          /\ \A o \in ObjSet \ PoolObjs : ps[o] = Loaded(0, 0, FALSE, NoLimit)
          /\ acct = [o \in ObjSet |-> [FromRow(o, ps[o]) EXCEPT !.inUse = o \in held]]
    /\ db = [u \in {UsernameOf(o) : o \in ObjSet} |->
               Row(acct[CHOOSE o \in ObjSet : UsernameOf(o) = u])]
    /\ scrapers = {}
    /\ calls = [c \in Calls |-> IdleFrame]
    /\ now = 0
    /\ faults = 0
    /\ toggles = 0
    /\ HealthIdle /\ SessionIdle /\ TimelineIdle /\ HistoryIdle /\ AdminIdle /\ JobsIdle /\ ReconcileIdle /\ LimitsIdle

AdminNext ==
    \/ \E u \in Usernames : enableAccount(u)
    \/ \E u \in Usernames : disableAccount(u)

SpecAdmin == AdminInit /\ [][AdminNext]_vars

\* ------------------------------------------------------------- tweet jobs
\* createTweetJob, processTweetJob and getJobStatus.  A request creates the
\* job and starts processTweetJob, which runs without a suspension point
\* into getTweets and executeOperation up to the first await of the call;
\* the steps of that call are those of the failover loop above.  When the
\* call throws, the catch block of processTweetJob runs in the same step;
\* when it returns, getTweets awaits _postProcessAndFetchThreads and the
\* job settles with it.  jobs.responses lists what getJobStatus answered.

\* getJobStatus requests over one behaviour.
MaxViews == 1

\* The sizes of the lists of tweets a job completes with.
TweetCounts == {0, 2}
\* The messages of the errors thrown behind executeOperation.
Messages == {"", "sanitize failed"}
\* The ids a status is asked for: those of the jobs and an unknown one.
JobIds == 1..(Cardinality(Calls) + 1)

JobsRest == <<accounts, acct, db, scrapers, calls, now, faults, toggles, pending, h, hlog, run, merge, thread, proc, batch, rateLimits, session, timeline, history, admin>>

\* POST /tweets/:username/jobs: createJob, then processTweetJob up to the
\* first await of its executeOperation call.
createTweetJob(c) ==
    /\ calls[c].pc = "idle"
    /\ pending > 0
    /\ pending' = pending - 1
    /\ LET job == createJob(Len(jobs.store) + 1, c)
           processing == updateJobStatus(job, "processing", NoResult, NoMessage)
           cr == [IdleFrame EXCEPT
                    !.clean = /\ \A o \in PoolObjs :
                                    /\ ~acct[o].disabled
                                    /\ canUse(acct[o], now)
                                    /\ ~acct[o].inUse
                              /\ \A d \in Others(c) : calls[d].pc \notin InFlight]
       IN EffectOn(c, LoopHead(Mem, cr), NoFaults, Append(jobs.store, processing))

\* processTweetJob after "await twitterService.getTweets(...)": the call has
\* returned and the post-processing settles, with the tweets or with an
\* error (thrown there or by the sanitizing of the tweets).
GetTweetsSettles(j) ==
    /\ j \in DOMAIN jobs.store
    /\ jobs.store[j].status = "processing"
    /\ calls[jobs.store[j].call].pc = "returned"
    /\ \E ok \in BOOLEAN, n \in TweetCounts, text \in Messages :
          /\ ok => text = ""
          /\ ~ok => n = 0
          /\ jobs' = [jobs EXCEPT !.store[j] =
                        IF ok
                        THEN updateJobStatus(@, "completed", ResultOf(n), NoMessage)
                        ELSE updateJobStatus(@, "failed", NoResult,
                                             Message(MessageOr(text)))]
    /\ UNCHANGED JobsRest

\* What getJobStatus answers for a job.
Response(job) ==
    [code |-> 200, jobId |-> job.id, status |-> job.status,
     result |-> IF job.status = "completed" THEN job.result ELSE NoResult,
     error |-> IF job.status = "failed" THEN job.error ELSE NoMessage]

NotFound(id) ==
    [code |-> 404, jobId |-> id, status |-> "none",
     result |-> NoResult, error |-> NoMessage]

\* GET /jobs/:id
getJobStatus(id) ==
    /\ Len(jobs.responses) < MaxViews
    /\ jobs' = [jobs EXCEPT !.responses =
                  Append(@, IF id \in DOMAIN jobs.store
                            THEN Response(jobs.store[id]) ELSE NotFound(id))]
    /\ UNCHANGED JobsRest

\* One job on a pool of up to two accounts, or two jobs on a pool of up to
\* one.
JobsInit ==
    /\ Init
    /\ Len(accounts) <= Len(LoginObjs) + 1 - pending

JobsNext ==
    \/ \E c \in Calls : createTweetJob(c)
    \/ \E c \in Calls : Probe(c)
    \/ \E c \in Calls : Login(c)
    \/ \E c \in Calls : Verify(c)
    \/ \E c \in Calls : Operation(c)
    \/ \E j \in JobIds : GetTweetsSettles(j)
    \/ \E id \in JobIds : getJobStatus(id)

SpecJobs == JobsInit /\ [][JobsNext]_vars

\* Every authentication, every liveness probe, every operation and every
\* post-processing the service awaits settles in the end.  A promise that
\* is awaited stays pending until it settles, so each of these steps stays
\* enabled until it is taken.
Settles ==
    \/ \E c \in Calls : Probe(c) \/ Login(c) \/ Verify(c) \/ Operation(c)
    \/ \E j \in JobIds : GetTweetsSettles(j)

SpecJobsFair ==
    /\ JobsInit
    /\ [][JobsNext]_vars
    /\ WF_vars(Settles)

\* ================================================================ claims
Rate(o) == getSuccessRate(acct[o])
Usable(o) ==
    ~acct[o].rateLimit.has \/ acct[o].rateLimit.remaining > 0
        \/ now >= acct[o].rateLimit.reset
Eligible == {o \in PoolObjs : ~acct[o].disabled /\ ~acct[o].inUse /\ Usable(o)}
Alone(c) == \A d \in Others(c) : calls[d].pc = "idle"

\* C1: whenever a call reserves an account for an attempt, that account is
\* not disabled and its username is not yet in the call's attempted set.
C1_SelectionSafe ==
    [][\A c \in Calls :
         calls'[c].tries = calls[c].tries + 1 =>
            LET o == calls'[c].account
            IN /\ ~acct[o].disabled
               /\ ~acct'[o].disabled
               /\ acct[o].username \notin calls[c].attempted]_vars

\* A second or later attempt is running while a disabled account that the
\* call has not attempted has a success rate at least as high.
C1_Witness ==
    \E c \in Calls, d \in PoolObjs :
        /\ calls[c].pc \in InFlight
        /\ calls[c].tries >= 2
        /\ acct[d].disabled
        /\ acct[d].username \notin calls[c].attempted
        /\ ~RateLess(Rate(d), Rate(calls[c].account))

\* C2: getBestAvailableAccount returns null exactly when no account is
\* enabled, not reserved and not rate-limited; otherwise it returns such an
\* account, and none of them has a higher success rate.
C2_BestIsBest ==
    LET best == getBestAvailableAccount(accounts, acct, now)
    IN /\ best = Null <=> Eligible = {}
       /\ best # Null =>
            /\ best \in Eligible
            /\ \A e \in Eligible : ~RateLess(Rate(best), Rate(e))

\* The best account beats another eligible one while a reserved account has
\* a higher rate than the best.
C2_Witness ==
    LET best == getBestAvailableAccount(accounts, acct, now)
    IN /\ best # Null
       /\ \E e \in Eligible : RateLess(Rate(e), Rate(best))
       /\ \E x \in PoolObjs : acct[x].inUse /\ RateLess(Rate(best), Rate(x))

\* C3: a recorded failure disables the account iff afterwards failureCount
\* > 5 and successCount / (successCount + failureCount) < 0.2; a recorded
\* success never disables; with failures only, the account is enabled up to
\* the 5th and disabled from the 6th.
C3_AutoDisable ==
    [][/\ hlog' # hlog /\ hlog'[Len(hlog')] = "failure" =>
            (h'.disabled <=>
                \/ h.disabled
                \/ /\ h'.failureCount > 5
                   /\ 5 * h'.successCount < h'.successCount + h'.failureCount)
       /\ hlog' # hlog /\ hlog'[Len(hlog')] = "success" =>
            h'.disabled = h.disabled
       /\ (\A i \in 1..Len(hlog') : hlog'[i] = "failure") =>
            (h'.disabled <=> Len(hlog') >= 6)]_vars

\* Six failures and nothing else have been recorded and the account is
\* disabled.
C3_Witness ==
    /\ Len(hlog) = 6
    /\ \A i \in 1..Len(hlog) : hlog[i] = "failure"
    /\ h.disabled
    /\ h.failureCount = 6

\* C4: a call that ran alone and undisturbed on a pool whose accounts were all
\* selectable, and whose every attempt failed in the operation, ends with
\* the all-accounts-failed error after as many attempts as the pool has
\* accounts.
C4_ExactlyPoolSizeAttempts ==
    \A c \in Calls :
        (/\ calls[c].pc \in Ended
         /\ calls[c].clean
         /\ Alone(c)
         /\ Events = 0
         /\ ~calls[c].won
         /\ calls[c].authFailed = {})
        => /\ calls[c].outcome.kind = "allFailed"
           /\ calls[c].tries = Len(accounts)

\* C5: on a pool of three selectable accounts, a call that ran alone and
\* undisturbed, with every login succeeding, the operation failing on a1
\* and a2 and succeeding on a3, returns the result of a3 and has raised
\* successCount of a3 by one, failureCount of a1 and of a2 by one, and
\* nothing else.
C5_OneSuccessTwoFailures ==
    \A c \in Calls :
        (/\ calls[c].pc \in Ended
         /\ Len(accounts) = 3
         /\ calls[c].clean
         /\ Alone(c)
         /\ Events = 0
         /\ calls[c].authFailed = {}
         /\ calls[c].opFailed \subseteq {"a1", "a2"}
         /\ calls[c].wonBy \in {"none", "a3"})
        => /\ calls[c].outcome = Result("a3")
           /\ calls[c].grew = [o \in ObjSet |->
                                 IF o = "o3" THEN <<1, 0>> ELSE <<0, 1>>]

\* C6: a call makes no more attempts than the pool has accounts, and as many
\* attempts as it has distinct usernames in its attempted set.
C6_AttemptsBounded ==
    \A c \in Calls :
        /\ calls[c].tries <= Len(accounts)
        /\ calls[c].tries = Cardinality(calls[c].attempted)

\* A call is in its third attempt on a pool of three.
C6_Witness ==
    \E c \in Calls :
        /\ calls[c].pc \in InFlight
        /\ calls[c].tries = 3
        /\ Len(accounts) = 3

\* C7: once the operation has returned on an account, the call has returned
\* that result.
C7_FirstSuccessWins ==
    \A c \in Calls :
        calls[c].won =>
            /\ calls[c].pc = "returned"
            /\ calls[c].outcome = Result(calls[c].wonBy)

\* C8: once a call has ended, an account it attempted is reserved only if
\* another call that is still running holds it.
C8_ReservationCleared ==
    \A c \in Calls :
        calls[c].pc \in Ended =>
            \A o \in PoolObjs :
                (acct[o].username \in calls[c].attempted /\ acct[o].inUse) =>
                    \E d \in Others(c) :
                        calls[d].pc \in InFlight /\ calls[d].account = o

C10_AggregateError ==
    \A c \in Calls :
        (calls[c].pc \in Ended /\ ~calls[c].won) =>
            /\ calls[c].outcome.kind = "allFailed"
            /\ calls[c].outcome.last = calls[c].lastError
            /\ calls[c].tries = 0 => calls[c].lastError = NoError
            /\ calls[c].tries > 0 =>
                 LET u == acct[calls[c].account].username
                 IN calls[c].lastError \in {OpError(u), AuthError(u)}
\* C11: when _executeConcurrentTasks returns, results has the length of
\* items and position i holds what taskProcessor gives for items[i], in
\* whatever order the tasks completed.
C11_ResultsInInputOrder ==
    run.state = "returned" =>
        /\ Len(run.results) = Len(run.items)
        /\ \A i \in 1..Len(run.items) :
              run.results[i] = <<"done", run.items[i]>>

\* The call has returned three or more results, and a task on a different
\* item completed before a task that comes earlier in the input.
C11_Witness ==
    /\ run.state = "returned"
    /\ Len(run.items) >= 3
    /\ \E p, q \in 1..Len(run.settled) :
          /\ p < q
          /\ run.settled[p] > run.settled[q]
          /\ run.items[run.settled[p]] # run.items[run.settled[q]]

\* C12: the number of tasks in flight never exceeds max(1, poolSize),
\* poolSize being the account count read when the call started.
C12_InFlightBounded ==
    run.state # "idle" =>
        Cardinality(Awaiting(run)) <= (IF run.count >= 1 THEN run.count ELSE 1)

\* The ceiling is reached with two or more tasks while items are still
\* queued and the pool has grown since the call started.
C12_Witness ==
    /\ run.state = "running"
    /\ Cardinality(Awaiting(run)) = run.count
    /\ run.count >= 2
    /\ Len(run.queue) > 0
    /\ Len(accounts) > run.count

\* C13: once no task of the call is in flight any more and exactly one task
\* has raised, every item of the input has been handed to taskProcessor.
C13_SiblingsStillRun ==
    (/\ run.state # "idle"
     /\ Awaiting(run) = {}
     /\ Cardinality({w \in DOMAIN run.workers : run.workers[w].pc = "rejected"}) = 1)
    => {run.handed[k] : k \in 1..Len(run.handed)} = 1..Len(run.items)
\* What the thread merge is required to give for the tweet at position i of
\* the batch: the fetched thread of its conversation if it is the first
\* tweet of that conversation, nothing if it is a later one, and the tweet
\* itself if no thread was fetched for its conversation.
HasFetchedThread(i) ==
    WalkConversationId(merge.tweets[i]) # Null
        /\ WalkConversationId(merge.tweets[i]) \in DOMAIN merge.fetchedThreads
FirstOf(i) ==
    \A j \in 1..(i - 1) :
        WalkConversationId(merge.tweets[j]) # WalkConversationId(merge.tweets[i])
Piece(i) ==
    IF HasFetchedThread(i)
    THEN IF FirstOf(i)
         THEN merge.fetchedThreads[WalkConversationId(merge.tweets[i])]
         ELSE <<>>
    ELSE <<merge.tweets[i]>>
RECURSIVE Pieces(_)
Pieces(n) == IF n = 0 THEN <<>> ELSE Pieces(n - 1) \o Piece(n)
Occurrences(x, q) == Cardinality({k \in 1..Len(q) : q[k] = x})

\* C14: the output of the thread merge is the batch in order, with the whole
\* fetched thread in place of the first tweet of its conversation and with
\* the later tweets of that conversation dropped; every tweet of a fetched
\* thread is in the output exactly once.
C14_ThreadSplicedOnce ==
    (merge.pc = "returned" /\ Len(merge.conversationIds) > 0) =>
        /\ merge.finalTweets = Pieces(Len(merge.tweets))
        /\ \A c \in DOMAIN merge.fetchedThreads :
             \A k \in 1..Len(merge.fetchedThreads[c]) :
                Occurrences(merge.fetchedThreads[c][k], merge.finalTweets) = 1

\* The batch [X, Y, Z], X and Z of conversation C with a thread of three, Y
\* without thread, has come out as [C1, C2, C3, Y].
C14_Witness ==
    /\ merge.pc = "returned"
    /\ Len(merge.tweets) = 3
    /\ WalkConversationId(merge.tweets[1]) = "C"
    /\ WalkConversationId(merge.tweets[3]) = "C"
    /\ WalkConversationId(merge.tweets[2]) = Null
    /\ "C" \in DOMAIN merge.fetchedThreads
    /\ Len(merge.fetchedThreads["C"]) = 3
    /\ merge.finalTweets = ThreadOf("C", 3) \o <<merge.tweets[2]>>

\* The tweets of the batch that are in the output, in the order of the output.
RECURSIVE Kept(_)
Kept(n) ==
    IF n = 0 THEN <<>>
    ELSE IF \E i \in 1..Len(merge.tweets) : merge.tweets[i] = merge.finalTweets[n]
         THEN Append(Kept(n - 1), merge.finalTweets[n].id)
         ELSE Kept(n - 1)

\* C15: a tweet of the batch that is not a thread candidate, or for whose
\* conversation no thread was fetched, is in the output once and unchanged,
\* and these tweets keep their order.
C15_OthersPassThrough ==
    merge.pc = "returned" =>
        LET kept == Kept(Len(merge.finalTweets))
        IN /\ \A i \in 1..Len(merge.tweets) :
                (\/ PotentialThread(merge.tweets[i], merge.username) = Null
                 \/ ~HasFetchedThread(i))
                => Occurrences(merge.tweets[i], merge.finalTweets) = 1
           /\ \A p, q \in 1..Len(kept) : p < q => kept[p] < kept[q]
\* C16: when getThread has fetched the head, it returns the head and every
\* tweet of the head's thread list, each once, in ascending order of
\* timestamp, a missing timestamp counting as 0.
C16_ThreadSortedByTimestamp ==
    (thread.pc = "returned" /\ thread.path = "head") =>
        LET source == <<thread.headTweet>> \o thread.bundle
            key(t) == IF t.hasTimestamp THEN t.timestamp ELSE 0
        IN /\ Len(thread.result) = Len(source)
           /\ \A k \in 1..Len(source) : Occurrences(source[k], thread.result) = 1
           /\ \A p, q \in 1..Len(thread.result) :
                 p < q => key(thread.result[p]) <= key(thread.result[q])

\* A head without timestamp with replies at 30, 10, 20 has come back as
\* head, 10, 20, 30.
C16_Witness ==
    /\ thread.pc = "returned"
    /\ thread.path = "head"
    /\ ~thread.headTweet.hasTimestamp
    /\ Len(thread.bundle) = 3
    /\ thread.bundle[1].timestamp = 30
    /\ thread.bundle[2].timestamp = 10
    /\ thread.bundle[3].timestamp = 20
    /\ thread.result = <<thread.headTweet, thread.bundle[2], thread.bundle[3],
                         thread.bundle[1]>>
\* The length the truncation check looks at: that of the nested text once
\* a closing link is cut, the entities are decoded and the ends trimmed.
NormalizedLength ==
    LET text == proc.tweet.retweetedStatus.text
    IN text.body + text.entities
         + (IF text.url /\ text.trail > 0 THEN text.gap + LinkLength ELSE 0)
Reshared == proc.tweet.isRetweet /\ proc.tweet.retweetedStatus.present

\* C17, as stated: for a retweet with a nested tweet the corrective fetch is
\* attempted iff the normalized length is at least 265, and at 264 the task
\* returns the tweet as it came.
C17_ThresholdAsStated ==
    (proc.pc # "called" /\ Reshared) =>
        /\ proc.fetched <=> NormalizedLength >= 265
        /\ NormalizedLength = 264 =>
              /\ ~proc.fetched
              /\ proc.pc = "returned"
              /\ proc.result = proc.tweet

\* C17, amended: for a retweet with a nested tweet the corrective fetch is
\* attempted iff the nested tweet has an id and the normalized length is at
\* least 265; at 264 no fetch is attempted and the task returns the tweet
\* with its text and html replaced by those of the nested tweet, which
\* itself stays as it came.
C17_Threshold ==
    (proc.pc # "called" /\ Reshared) =>
        /\ proc.fetched <=> (proc.tweet.retweetedStatus.hasId
                             /\ NormalizedLength >= 265)
        /\ NormalizedLength = 264 =>
              /\ ~proc.fetched
              /\ proc.pc = "returned"
              /\ proc.result.retweetedStatus = proc.tweet.retweetedStatus
              /\ proc.result.text = "original"
              /\ proc.result.html = "original"

\* The corrective fetch is under way for a nested text of normalized length
\* 265 whose raw length is greater.
C17_Witness ==
    /\ proc.pc = "fetching"
    /\ Reshared
    /\ NormalizedLength = 265
    /\ length(proc.tweet.retweetedStatus.text) > 265
\* C18: _postProcessAndFetchThreads never throws.  When it returns, a tweet
\* whose corrective fetch failed has its nested tweet as it came and the
\* text and html of that nested tweet; no tweet of a conversation whose
\* thread fetch failed is merged; and every tweet of the batch is in the
\* output, itself or through the thread fetched for its conversation.
C18_FetchFailureTolerated ==
    /\ batch.pc # "threw"
    /\ batch.pc = "returned" =>
          /\ Len(batch.processedTweets) = Len(batch.tweets)
          /\ \A i \in batch.failedTweets :
                /\ batch.processedTweets[i].retweetedStatus
                       = batch.tweets[i].retweetedStatus
                /\ batch.processedTweets[i].text = "original"
                /\ batch.processedTweets[i].html = "original"
                /\ batch.processedTweets[i].id = i
          /\ \A c \in batch.failedThreads :
                /\ c \notin DOMAIN batch.fetchedThreads
                /\ \A k \in 1..Len(batch.finalTweets) :
                      batch.finalTweets[k] \notin {ThreadOf(c, 3)[n] : n \in 1..3}
          /\ \A i \in 1..Len(batch.tweets) :
                LET tweet == batch.processedTweets[i]
                    c == WalkConversationId(tweet)
                IN IF c # Null /\ c \in DOMAIN batch.fetchedThreads
                   THEN \A n \in 1..3 :
                          Occurrences(ThreadOf(c, 3)[n], batch.finalTweets) = 1
                   ELSE Occurrences(tweet, batch.finalTweets) = 1

\* A batch of two has been returned, both tweets in the output, after the
\* truncation fetch of a tweet and the thread fetch of a conversation failed.
C18_Witness ==
    /\ batch.pc = "returned"
    /\ Len(batch.tweets) = 2
    /\ batch.failedTweets # {}
    /\ batch.failedThreads # {}
    /\ Len(batch.finalTweets) = 2
\* The entry of account o for an endpoint, and what the rate limits say of
\* it: usable when there is no entry, requests are left or the reset time
\* has come.
EntryOf(o, endpoint) == rateLimits[o][endpoint]
UsableFor(o, endpoint) ==
    \/ ~EntryOf(o, endpoint).has
    \/ EntryOf(o, endpoint).remaining > 0
    \/ now >= EntryOf(o, endpoint).reset
Enabled == {o \in PoolObjs : ~acct[o].disabled}
UntilReset(o, endpoint) ==
    IF EntryOf(o, endpoint).reset - now > 0
    THEN EntryOf(o, endpoint).reset - now ELSE 0

\* C19: getWaitTime(endpoint) is 0 if an enabled account is usable for the
\* endpoint; otherwise it is the least max(0, reset - now) among the
\* enabled accounts, and 0 when no enabled account has an entry.
C19_WaitTime ==
    \A endpoint \in Endpoints :
        LET wait == getWaitTime(accounts, AccountAt(acct, rateLimits, endpoint), now)
            limited == {o \in Enabled : EntryOf(o, endpoint).has}
        IN IF \E o \in Enabled : UsableFor(o, endpoint) THEN wait = 0
           ELSE IF limited = {} THEN wait = 0
           ELSE /\ \E o \in limited : wait = UntilReset(o, endpoint)
                /\ \A o \in limited : wait <= UntilReset(o, endpoint)

\* Two enabled accounts wait for different reset times, a disabled one has
\* no entry, and getWaitTime gives the wait of the earlier enabled one.
C19_Witness ==
    \E endpoint \in Endpoints, o1, o2, o3 \in PoolObjs :
        /\ o1 \in Enabled /\ o2 \in Enabled /\ o3 \notin Enabled
        /\ ~UsableFor(o1, endpoint) /\ ~UsableFor(o2, endpoint)
        /\ ~EntryOf(o3, endpoint).has
        /\ UntilReset(o1, endpoint) < UntilReset(o2, endpoint)
        /\ getWaitTime(accounts, AccountAt(acct, rateLimits, endpoint), now)
              = UntilReset(o1, endpoint)

\* C20: for an enabled account canUse(endpoint) is true iff there is no
\* entry, or remaining > 0, or now >= reset; it is true iff
\* waitTimeFor(endpoint) is 0, and waitTimeFor is reset - now otherwise.  A
\* disabled account has canUse false.
C20_CanUseAndWaitTime ==
    \A o \in PoolObjs, endpoint \in Endpoints :
        LET a == AccountAt(acct, rateLimits, endpoint)[o]
        IN IF acct[o].disabled THEN ~canUse(a, now)
           ELSE /\ canUse(a, now) <=> UsableFor(o, endpoint)
                /\ canUse(a, now) <=> waitTimeFor(a, now) = 0
                /\ ~canUse(a, now) =>
                      waitTimeFor(a, now) = EntryOf(o, endpoint).reset - now

\* After the clock has advanced an enabled account is blocked for two more
\* seconds on one endpoint, usable with requests left on the other, and
\* another account is back in use because its reset time has come.
C20_Witness ==
    \E o, p \in Enabled, e, f \in Endpoints :
        /\ now > 0
        /\ ~UsableFor(o, e)
        /\ waitTimeFor(AccountAt(acct, rateLimits, e)[o], now) = 2
        /\ EntryOf(o, f).has /\ EntryOf(o, f).remaining > 0
        /\ now < EntryOf(o, f).reset
        /\ EntryOf(p, e).has /\ EntryOf(p, e).remaining = 0
        /\ now >= EntryOf(p, e).reset

\* C21: every updateAccountStatus call writes the account's state to the
\* database, so after any sequence of recorded outcomes the stored health
\* counters and rate-limit entry of each account of the pool equal those of
\* the object in memory.
C21_StoredEqualsMemory ==
    \A o \in PoolObjs :
        LET row == db[acct[o].username]
        IN /\ row.successCount = acct[o].successCount
           /\ row.failureCount = acct[o].failureCount
           /\ row.rateLimit = acct[o].rateLimit

\* C22: login() logs in with the best available account: when the pool has
\* a selectable account and nothing stands in the way of its authentication,
\* login() returns true, whether or not the account had a handle before.
C22_LoginAuthenticates ==
    (session.pc \in Ended /\ session.account # Null /\ ~session.refused)
        => session.outcome = "true"

\* login() on an account with a handle: it returns true.
C22_WithHandle ==
    /\ session.pc = "returned"
    /\ session.outcome = "true"

\* C23: a new handle is authenticated before it is cached: every handle in
\* the scrapers map has completed a successful authentication, so the map
\* holds no handle whose first login (or the probe behind it) is still
\* awaited.
C23_AuthenticatedBeforeCached ==
    \A c \in Calls :
        (calls[c].pc \in {"login", "verify"} /\ calls[c].fresh)
            => acct[calls[c].account].username \notin scrapers

\* C24: when the authentication of the selected account does not establish
\* a session (login throws, or the probe behind it reports no session), the
\* operation is not invoked with that account in that attempt.
C24_NoOperationAfterFailedLogin ==
    \A c \in Calls :
        calls[c].pc = "op"
            => acct[calls[c].account].username \notin calls[c].authFailed

\* C25: getScraper returns the cached handle without authenticating again
\* iff a handle exists and its liveness probe reports a session; on first
\* use, or when the probe reports no session (as after logout()), the
\* account is authenticated before the operation runs, whatever its
\* isLoggedIn flag says.  In steps of a call: a new attempt probes the handle
\* iff the account has one and starts a login iff it has none; after the
\* probe the operation follows iff the probe said alive and a login iff it
\* said dead; and the operation starts only behind an alive probe or behind
\* the login of the same attempt.
C25_Step(c) ==
    LET f == calls[c]
        g == calls'[c]
        cached == acct[g.account].username \in scrapers
    IN /\ (g.tries = f.tries + 1)
            => /\ g.pc = "probe" <=> cached
               /\ g.pc = "login" <=> ~cached
       /\ (f.pc = "probe" /\ g.tries = f.tries /\ g.pc \notin Ended)
            => /\ g.pc = "op" <=> g.probed = "alive"
               /\ g.pc = "login" <=> g.probed = "dead"
       /\ (g.pc = "op" /\ f.pc # "op")
            => /\ g.tries = f.tries
               /\ \/ f.pc = "probe" /\ g.probed = "alive"
                  \/ f.pc = "verify"
       /\ (g.pc = "login" /\ f.pc # "login" /\ g.tries = f.tries)
            => f.pc = "probe"

C25_ProbeThenAuthenticate == [][\A c \in Calls : C25_Step(c)]_vars

\* After logout() a call finds the handle of its account in the map, the
\* probe says dead and the login is under way.
C25_Witness ==
    /\ session.logouts > 0
    /\ \E c \in Calls :
          /\ calls[c].pc = "login"
          /\ ~calls[c].fresh
          /\ calls[c].probed = "dead"

\* C27: with an empty pool executeOperation fails at once without entering
\* the loop: the call ends in its first step with the error of the
\* exhausted pool and no last error, no account is selected or reserved, no
\* handle is created and no account object or stored row changes.
C27_Step(c) ==
    (Len(accounts) = 0 /\ calls[c].pc = "idle" /\ calls'[c].pc # "idle")
        => /\ calls'[c].pc = "threw"
           /\ calls'[c].outcome = AllFailed(NoError)
           /\ calls'[c].tries = 0
           /\ calls'[c].attempted = {}
           /\ calls'[c].account = Null
           /\ acct' = acct
           /\ db' = db
           /\ scrapers' = scrapers

C27_EmptyPoolFailsAtOnce == [][\A c \in Calls : C27_Step(c)]_vars

\* A call on the empty pool has ended.
C27_Witness ==
    /\ Len(accounts) = 0
    /\ \E c \in Calls :
          /\ calls[c].pc = "threw"
          /\ calls[c].outcome = AllFailed(NoError)
          /\ calls[c].tries = 0

\* C26: among the eligible accounts whose success rate equals that of the
\* account getBestAvailableAccount returns, the returned one comes first in
\* the base order: it has the lowest priority number, and among those of
\* equal priority it was inserted first; after any addAccount and
\* removeAccount calls.
SameRate(x, y) ==
    /\ ~RateLess(getSuccessRate(acct[x]), getSuccessRate(acct[y]))
    /\ ~RateLess(getSuccessRate(acct[y]), getSuccessRate(acct[x]))

InsertedAt(o) == CHOOSE i \in 1..Len(history.order) : history.order[i] = o

ComesBefore(x, y) ==
    \/ acct[x].priority < acct[y].priority
    \/ /\ acct[x].priority = acct[y].priority
       /\ InsertedAt(x) < InsertedAt(y)

C26_TiesByBaseOrder ==
    LET best == getBestAvailableAccount(accounts, acct, now)
    IN best # Null =>
         \A o \in PoolObjs \ {best} :
             (IsAvailable(acct[o], now) /\ SameRate(best, o)) => ComesBefore(best, o)

\* After an account was removed and another added: two eligible accounts
\* of equal priority and equal rate, one with nothing recorded and one with
\* a recorded success, and the one pushed first is returned.
C26_Witness ==
    LET best == getBestAvailableAccount(accounts, acct, now)
    IN /\ history.removed > 0
       /\ Len(accounts) = 2
       /\ best # Null
       /\ \E o \in PoolObjs \ {best} :
             /\ IsAvailable(acct[o], now)
             /\ SameRate(best, o)
             /\ acct[o].priority = acct[best].priority
             /\ InsertedAt(best) < InsertedAt(o)
             /\ acct[o].successCount # acct[best].successCount

\* C28: when every task terminates without raising, _executeConcurrentTasks
\* terminates, and by then every item has been shifted off the queue and
\* passed to taskProcessor exactly once, none by two workers and none
\* skipped; for an empty input it returns an empty list without calling
\* taskProcessor.  On the way no index is handed out twice.
HandedOnce(r) ==
    \A i, j \in 1..Len(r.handed) : r.handed[i] = r.handed[j] => i = j

C28_OnReturn ==
    /\ HandedOnce(run)
    /\ run.state = "returned" =>
          /\ Len(run.handed) = Len(run.items)
          /\ \A i \in 1..Len(run.items) : Occurrences(i, run.handed) = 1
          /\ run.queue = <<>>
          /\ Len(run.results) = Len(run.items)
    /\ (run.state # "idle" /\ run.items = <<>>) =>
          /\ run.state = "returned"
          /\ run.results = <<>>
          /\ run.handed = <<>>

C28_TerminatesEachItemOnce ==
    /\ []C28_OnReturn
    /\ (run.state = "running") ~> (run.state = "returned")

\* A call on more items than workers has returned: two workers went round
\* their loops and the tasks did not settle in the order they were handed
\* out.
C28_Witness ==
    /\ run.state = "returned"
    /\ run.concurrencyLimit = 2
    /\ Len(run.items) = 4
    /\ run.handed = <<1, 2, 3, 4>>
    /\ run.settled # run.handed

\* C29 as stated: for getTweets, getLatestTweet and searchTweets both passes
\* are applied, the truncation repair first and the thread merge second,
\* before the batch is returned.
C29_BothPassesAlways ==
    batch.pc = "returned" =>
        batch.passes = <<"_processTweets", "_fetchAndMergeThreads">>

\* C29: for getTweets and getLatestTweet the truncation repair runs over the
\* whole batch first and the thread merge second, on its output, before the
\* batch is returned; for searchTweets only the truncation repair is
\* applied and its output is returned.
C29_PassesInOrder ==
    /\ batch.pc = "fetching" =>
          /\ batch.passes = <<"_processTweets", "_fetchAndMergeThreads">>
          /\ Len(batch.processedTweets) = Len(batch.tweets)
    /\ batch.pc = "returned" =>
          /\ Len(batch.processedTweets) = Len(batch.tweets)
          /\ IF batch.operation = "searchTweets"
             THEN /\ batch.passes = <<"_processTweets">>
                  /\ batch.finalTweets = batch.processedTweets
             ELSE /\ batch.passes = <<"_processTweets", "_fetchAndMergeThreads">>
                  /\ batch.finalTweets =
                        IF ThreadsToFetch(batch.processedTweets, batch.username) = <<>>
                        THEN batch.processedTweets
                        ELSE Walk(batch.processedTweets, batch.fetchedThreads,
                                  Len(batch.processedTweets)).finalTweets

\* getTweets has returned: the truncation repair replaced the nested tweet
\* of a retweet, and the thread fetched for the conversation of that nested
\* tweet was merged into the output.
C29_Witness ==
    /\ batch.pc = "returned"
    /\ batch.operation = "getTweets"
    /\ \E i \in 1..Len(batch.tweets) :
          batch.processedTweets[i].retweetedStatus # batch.tweets[i].retweetedStatus
    /\ DOMAIN batch.fetchedThreads # {}
    /\ batch.finalTweets # batch.processedTweets

\* C30: getTweets with a sinceId collects, in order, exactly the longest
\* prefix of the source whose tweets have an id greater than sinceId as a
\* string or no id: the first tweet with an id <= sinceId stops the
\* collection, it and the later ones are not collected, and a tweet without
\* id never stops it.  x is at most y as a string when x is y, x is a proper
\* prefix of y, or x has the smaller character where they first differ.
AtMostAsString(x, y) ==
    \/ x = y
    \/ /\ Len(x) < Len(y)
       /\ \A j \in 1..Len(x) : x[j] = y[j]
    \/ \E k \in 1..Len(x) :
          /\ k <= Len(y)
          /\ \A j \in 1..(k - 1) : x[j] = y[j]
          /\ x[k] < y[k]

Stops(i) ==
    /\ timeline.source[i].id # NoId
    /\ AtMostAsString(timeline.source[i].id, timeline.sinceId)

C30_PrefixAboveSinceId ==
    (timeline.pc = "returned" /\ timeline.sinceId # NoId) =>
        LET stops == {i \in 1..Len(timeline.source) : Stops(i)}
            n == IF stops = {} THEN Len(timeline.source)
                 ELSE (CHOOSE i \in stops : \A j \in stops : i <= j) - 1
        IN timeline.collectedTweets = SubSeq(timeline.source, 1, n)

\* sinceId "10": a tweet without id and the tweet "9" (greater as a string,
\* smaller as a number) were collected, and the tweet "10" stopped the
\* collection.
C30_Witness ==
    /\ timeline.pc = "returned"
    /\ timeline.sinceId = <<1, 0>>
    /\ Len(timeline.source) = 3
    /\ timeline.source[1].id = NoId
    /\ timeline.source[2].id = <<9>>
    /\ timeline.source[3].id = <<1, 0>>
    /\ timeline.collectedTweets = SubSeq(timeline.source, 1, 2)

\* C31: the username is a unique key of the pool: after any sequence of
\* addAccount and removeAccount calls, addAccount with a username that is
\* already present included, no two accounts of the pool have the same
\* username.
C31_UsernameUnique ==
    \A i, j \in 1..Len(accounts) :
        acct[accounts[i]].username = acct[accounts[j]].username => i = j

\* C32: enable and disable are idempotent: a request to enable (or
\* disable) an account sets the disabled flag of that account and nothing
\* else, so the health counters, the rate-limit entry and the reservation
\* flag of the account, every other account and the pool are as before the
\* request, and a second request of the same kind for the same account
\* leaves everything as the first left it.
C32_EnableDisableIdempotent ==
    Len(admin.requests) > 0 =>
        LET n == Len(admin.requests)
            r == admin.requests[n]
            b == admin.before
            o == getAccount(b.acct, b.accounts, r.username)
        IN /\ accounts = b.accounts
           /\ \A x \in ObjSet \ {o} : acct[x] = b.acct[x]
           /\ r.status = (IF o = Null THEN 404 ELSE 200)
           /\ o # Null =>
                 acct[o] = [b.acct[o] EXCEPT !.disabled = (r.kind = "disable")]
           /\ (n > 1 /\ admin.requests[n - 1] = r) => acct = b.acct

\* The account a2, with three successes on record and reserved by a call,
\* was disabled twice in a row.
C32_Witness ==
    /\ Len(admin.requests) = 2
    /\ admin.requests[1] = Request("disable", "a2", 200)
    /\ admin.requests[2] = Request("disable", "a2", 200)
    /\ acct["o2"].disabled
    /\ acct["o2"].inUse
    /\ acct["o2"].successCount = 3

\* C33: within one executeOperation call the attempts are strictly
\* sequential.  At every moment every reserved account of the pool is the
\* account of the current attempt of a call (or the account a call was on
\* when it ended with the error of a write to the database), a call in
\* flight has its current account reserved, and a call has one current
\* account: it holds at most one reservation.  And the step that selects
\* the next account of a call has recorded a failure on the account of the
\* previous attempt and cleared its reservation.
Holds(c, o) ==
    /\ calls[c].account = o
    /\ \/ calls[c].pc \in InFlight
       \/ calls[c].pc = "threw" /\ calls[c].outcome.kind = "thrown"

C33_OneReservation ==
    /\ \A o \in PoolObjs : acct[o].inUse => \E c \in Calls : Holds(c, o)
    /\ \A c \in Calls : calls[c].pc \in InFlight => acct[calls[c].account].inUse
    /\ \A c \in Calls :
          Cardinality({o \in PoolObjs : acct[o].inUse /\ Holds(c, o)}) <= 1

C33_Step(c) ==
    (calls[c].pc \in InFlight /\ calls'[c].tries = calls[c].tries + 1) =>
        /\ calls'[c].account # calls[c].account
        /\ ~acct'[calls[c].account].inUse
        /\ acct'[calls[c].account].failureCount > acct[calls[c].account].failureCount
        /\ acct'[calls'[c].account].inUse

C33_AttemptsSequential ==
    /\ []C33_OneReservation
    /\ [][\A c \in Calls : C33_Step(c)]_vars

\* The second attempt of a call is waiting for the operation: the first
\* account failed the operation and is free again, the second is reserved.
C33_Witness ==
    /\ calls["c1"].pc = "op"
    /\ calls["c1"].tries = 2
    /\ calls["c1"].opFailed = {"a1"}
    /\ calls["c1"].account = "o2"
    /\ ~acct["o1"].inUse
    /\ acct["o2"].inUse

\* C34: in one thread-merge pass the conversations handed to the fetch are
\* the conversation ids of the candidates of the batch, each id once however
\* many tweets of the batch are candidates for it; when the batch has no
\* candidate nothing is fetched and the batch is returned as it came.
Candidates ==
    {i \in 1..Len(merge.tweets) :
        PotentialThread(merge.tweets[i], merge.username) # Null}

C34_OneFetchPerConversation ==
    /\ merge.pc \in {"fetching", "returned"} =>
          /\ \A p, q \in 1..Len(merge.conversationIds) :
                merge.conversationIds[p] = merge.conversationIds[q] => p = q
          /\ {merge.conversationIds[k] : k \in 1..Len(merge.conversationIds)}
                = {PotentialThread(merge.tweets[i], merge.username) : i \in Candidates}
          /\ DOMAIN merge.fetchedThreads \subseteq
                {merge.conversationIds[k] : k \in 1..Len(merge.conversationIds)}
    /\ (merge.pc # "called" /\ Candidates = {}) =>
          /\ merge.pc = "returned"
          /\ merge.conversationIds = <<>>
          /\ merge.fetchedThreads = <<>>
          /\ merge.finalTweets = merge.tweets

\* Two tweets of the batch are candidates for the conversation C: the fetch
\* was asked for C once, and the pass has returned with its thread.
C34_Witness ==
    /\ merge.pc = "returned"
    /\ Cardinality({i \in Candidates :
                      PotentialThread(merge.tweets[i], merge.username) = "C"}) >= 2
    /\ merge.conversationIds = <<"C">>
    /\ DOMAIN merge.fetchedThreads = {"C"}

\* C35: each attempt of an executeOperation call records one outcome on the
\* attempted account: over a call that has ended, the steps of the call
\* raised successCount by one and nothing else on the account whose
\* operation returned, failureCount by one and nothing else on every other
\* attempted account, and no counter of an account that was not attempted.
C35_OneOutcomePerAttempt ==
    \A c \in Calls :
        calls[c].pc \in Ended =>
            \A o \in ObjSet :
                calls[c].grew[o] =
                    IF acct[o].username \notin calls[c].attempted THEN <<0, 0>>
                    ELSE IF calls[c].pc = "returned" /\ calls[c].wonBy = acct[o].username
                         THEN <<1, 0>>
                         ELSE <<0, 1>>

\* C36: under any interleaving of executeOperation calls, the step in which
\* a call reports the exhaustion of the pool leaves no enabled account that
\* is usable for the category and that the call has not attempted; and a
\* call that is made while such an account exists does not report the
\* exhaustion without an attempt.
EnabledUsable(o) == ~acct[o].disabled /\ canUse(acct[o], now)

C36_Step(c) ==
    (/\ calls[c].pc \notin Ended
     /\ calls'[c].pc = "threw"
     /\ calls'[c].outcome.kind = "allFailed")
    => /\ (/\ calls[c].pc = "idle"
           /\ \E o \in PoolObjs : EnabledUsable(o))
          => calls'[c].tries >= 1
       /\ \A o \in PoolObjs :
             EnabledUsable(o)' => acct'[o].username \in calls'[c].attempted

C36_NoSpuriousExhaustion == [][\A c \in Calls : C36_Step(c)]_vars

\* C37: whenever no executeOperation call is in flight, the disabled flag
\* stored in the table for each account of the pool is the disabled flag of
\* the account's object.
C37_DisabledFlagStored ==
    (\A c \in Calls : calls[c].pc \notin InFlight) =>
        \A o \in PoolObjs : db[acct[o].username].disabled = acct[o].disabled

\* C38: the disabled flag of an account goes from true to false only in the
\* step of a request to the enable endpoint for that account: no step of
\* an executeOperation call, whatever it records on the account, enables
\* it.  And the account a call selects is enabled when it is selected.
C38_Step ==
    /\ \A o \in ObjSet :
          (acct[o].disabled /\ ~acct'[o].disabled) =>
              /\ toggles' = toggles + 1
              /\ calls' = calls
              /\ \A x \in ObjSet \ {o} : acct'[x] = acct[x]
    /\ \A c \in Calls :
          calls'[c].tries = calls[c].tries + 1 =>
              /\ ~acct[calls'[c].account].disabled
              /\ ~acct'[calls'[c].account].disabled

C38_OnlyEnableReenables == [][C38_Step]_vars

\* The account a1 was disabled by a request while a call was waiting for
\* its operation on a1; the operation returned, the success was recorded on
\* the disabled account, and the account is still disabled.
C38_Witness ==
    /\ calls["c1"].pc = "returned"
    /\ calls["c1"].wonBy = "a1"
    /\ toggles = 1
    /\ acct["o1"].disabled
    /\ acct["o1"].failureCount = 0
    /\ acct["o1"].successCount >= 1

\* C39: the statuses a job is given are pending, then processing, then
\* completed or failed, and nothing after that; a job has a result only
\* when it is completed and an error only when it is failed, and
\* getJobStatus answers with the result only for a completed job and with
\* the error only for a failed one.
IsPrefix(s, t) == Len(s) <= Len(t) /\ \A k \in 1..Len(s) : s[k] = t[k]

C39_JobLifecycle ==
    /\ \A j \in DOMAIN jobs.store :
          LET job == jobs.store[j]
          IN /\ \/ IsPrefix(job.trace, <<"pending", "processing", "completed">>)
                \/ IsPrefix(job.trace, <<"pending", "processing", "failed">>)
             /\ job.status = job.trace[Len(job.trace)]
             /\ job.result.present <=> job.status = "completed"
             /\ job.error.present <=> job.status = "failed"
    /\ \A k \in 1..Len(jobs.responses) :
          LET response == jobs.responses[k]
          IN /\ response.result.present <=> response.status = "completed"
             /\ response.error.present <=> response.status = "failed"

\* Two jobs: the first completed with two tweets, the second, made while
\* the first held the only account, failed with the exhaustion error; the
\* status of the first was asked for and came with the result.
C39_Witness ==
    /\ Len(jobs.store) = 2
    /\ jobs.store[1].trace = <<"pending", "processing", "completed">>
    /\ jobs.store[1].result = ResultOf(2)
    /\ jobs.store[2].trace = <<"pending", "processing", "failed">>
    /\ jobs.store[2].error = Message("Operation failed for all accounts")
    /\ jobs.responses = <<Response(jobs.store[1])>>
    /\ jobs.responses[1].result = ResultOf(2)

\* C40: when everything the service awaits settles in the end, every
\* executeOperation call ends, by returning a result or by throwing the
\* error of the exhausted pool and in no other way, and every job that was
\* created reaches the status completed or failed.
Busy ==
    \/ \E c \in Calls : calls[c].pc \in InFlight
    \/ \E j \in DOMAIN jobs.store : jobs.store[j].status \notin {"completed", "failed"}

EndedAsSaid ==
    \A c \in Calls : calls[c].pc = "threw" => calls[c].outcome.kind = "allFailed"

C40_CallsAndJobsEnd ==
    /\ []EndedAsSaid
    /\ Busy ~> ~Busy

====
